---- MODULE Spec2Model ----
(***************************************************************************)
(* A model of the myc compiler pipeline (liolin/myc):                      *)
(*   source -> lexer -> tokens -> parser -> AST -> tacky (TAC) ->          *)
(*   assembly selection -> pseudo replacement -> fixing up (legalization)  *)
(*   -> codegen (text).                                                    *)
(*                                                                         *)
(* Data is represented by tagged tuples, the tag being the Rust variant:   *)
(*   Token        <<"Int">>, <<"Identifier", s>>, <<"Constant", n>>, ...   *)
(*   Expression   <<"Constant", n>>, <<"Unary", op, e>>,                   *)
(*                <<"Binary", op, l, r>>                                   *)
(*   tacky Value  <<"Constant", n>>, <<"Var", name>>                       *)
(*   tacky Instr  <<"Return", v>>, <<"Unary", op, src, dst>>,              *)
(*                <<"Binary", op, left, right, dst>>                       *)
(*   asm Operand  <<"Imm", n>>, <<"Register", r>>, <<"Pseudo", name>>,     *)
(*                <<"Stack", off>>                                         *)
(*   char         its Unicode scalar value, 0 .. 255 here                  *)
(*   String       of the lexer: the sequence of its chars                  *)
(*   asm Instr    <<"Mov", src, dst>>, <<"Unary", op, operand>>,           *)
(*                <<"Binary", op, src, dst>>, <<"Idiv", operand>>,         *)
(*                <<"Cdq">>, <<"AllocateStack", n>>, <<"Ret">>             *)
(***************************************************************************)
EXTENDS Integers, Sequences, FiniteSets, TLC

VARIABLES
    pc,        \* position in the pipeline
    tokens,    \* the tokens the stream handed to parse() or all() has yielded
    pos,       \* number of tokens the parser has consumed from the stream
    program,   \* the Result returned by Parser::parse_program
    result,    \* the Result returned by parse()
    ast,       \* ast::Program handed to tacky()
    counter,   \* TackyGen::counter
    tac,       \* tacky::Program, the function body: a list of instructions
    sel,       \* assembly instructions after selection (instructions())
    asm,       \* assembly instructions after the latest assembly pass
    offset,    \* the u32 returned by replace_pseudo_registers
    machine,   \* abstract machine state after running the emitted program
    run,       \* number of the current compilation in this process
    source,    \* the source text handed to lex(): a sequence of chars
    chars,     \* Cursor::chars, the chars the iterator has not yielded yet
    current,   \* Cursor::current
    code,      \* the lines codegen() renders for the instructions
    start      \* abstract machine state before a legalized instruction runs

vars == <<pc, tokens, pos, program, result, ast, counter, tac, sel, asm, offset, machine, run,
          source, chars, current, code, start>>

(***************************************************************************)
(* Bounds of the model.                                                    *)
(***************************************************************************)
\* largest number of operator nodes of an input AST
MaxOps == 3
\* number of compilations performed one after the other
MaxRuns == 2
\* largest number of tokens of a freely chosen expression part
MaxExprTokens == 4
\* largest number of binary operators of an infix chain  c op c op ... c
MaxBinaryOps == 3
\* largest number of tokens that follow a complete program
MaxTrailing == 2
\* largest number of chars of a freely chosen source text
MaxSourceLen == 4
\* largest number of chars of a freely chosen expression text
MaxExprChars == 4
\* number of 4-byte stack slots of the frame a single instruction is run in
MaxSlots == 2

(***************************************************************************)
(* i32 arithmetic, wrapping at 32 bits.  No intermediate value leaves the  *)
(* i32 range.                                                              *)
(***************************************************************************)
MaxI32 == 2147483647
MinI32 == -MaxI32 - 1

WrapAdd(a, b) ==
    IF b > 0 /\ a > MaxI32 - b THEN (a - MaxI32 - 1) + (b - MaxI32 - 1)
    ELSE IF b < 0 /\ a < MinI32 - b THEN (a + MaxI32 + 1) + (b + MaxI32 + 1)
    ELSE a + b

WrapNeg(a) == IF a = MinI32 THEN MinI32 ELSE -a

WrapNot(a) == (-1) - a

WrapSub(a, b) == WrapAdd(WrapAdd(a, WrapNot(b)), 1)

\* byte k of the two's complement representation of a
Byte(a, k) == (a \div (256 ^ k)) % 256

\* column n of the schoolbook product of the bytes of a and b
Column(a, b, n) ==
    CASE n = 0 -> Byte(a, 0) * Byte(b, 0)
      [] n = 1 -> Byte(a, 0) * Byte(b, 1) + Byte(a, 1) * Byte(b, 0)
      [] n = 2 -> Byte(a, 0) * Byte(b, 2) + Byte(a, 1) * Byte(b, 1) + Byte(a, 2) * Byte(b, 0)
      [] n = 3 -> Byte(a, 0) * Byte(b, 3) + Byte(a, 1) * Byte(b, 2)
                  + Byte(a, 2) * Byte(b, 1) + Byte(a, 3) * Byte(b, 0)

\* column n with the carry of the columns below it
Carried(a, b, n) ==
    IF n = 0 THEN Column(a, b, 0)
    ELSE IF n = 1 THEN Column(a, b, 1) + Column(a, b, 0) \div 256
    ELSE IF n = 2 THEN Column(a, b, 2) + (Column(a, b, 1) + Column(a, b, 0) \div 256) \div 256
    ELSE Column(a, b, 3)
         + (Column(a, b, 2) + (Column(a, b, 1) + Column(a, b, 0) \div 256) \div 256) \div 256

\* the i32 with the bytes r0 (lowest) to r3
FromBytes(r0, r1, r2, r3) ==
    (IF r3 >= 128 THEN r3 - 256 ELSE r3) * 16777216 + r2 * 65536 + r1 * 256 + r0

\* a * b mod 2^32 (i32::wrapping_mul, the imull instruction)
WrapMul(a, b) ==
    FromBytes(Carried(a, b, 0) % 256, Carried(a, b, 1) % 256,
              Carried(a, b, 2) % 256, Carried(a, b, 3) % 256)

\* division is defined unless the divisor is 0 or the quotient overflows
DivDefined(a, b) == b # 0 /\ ~(a = MinI32 /\ b = -1)

\* quotient truncated toward zero, for DivDefined(a, b)
TruncDiv(a, b) ==
    IF b = MinI32 THEN (IF a = MinI32 THEN 1 ELSE 0)
    ELSE LET d == IF b < 0 THEN -b ELSE b
             q == a \div d
             t == IF a < 0 /\ a % d # 0 THEN q + 1 ELSE q
         IN  IF b < 0 THEN -t ELSE t

\* remainder with the sign of the dividend, for DivDefined(a, b)
TruncRem(a, b) ==
    IF b = MinI32 THEN (IF a = MinI32 THEN 0 ELSE a)
    ELSE LET d == IF b < 0 THEN -b ELSE b
             r == a % d
         IN  IF a < 0 /\ r # 0 THEN r - d ELSE r

(***************************************************************************)
(* TAC lowering (tacky.rs).                                                *)
(***************************************************************************)
\* impl From<ast::UnaryOperation> for tacky::UnaryOperator
TackyUnaryOperator(op) ==
    CASE op = "Complement" -> "Complement"
      [] op = "Negate"     -> "Negate"

\* impl From<ast::BinaryOperation> for tacky::BinaryOperator
TackyBinaryOperator(op) ==
    CASE op = "Add"       -> "Add"
      [] op = "Subtract"  -> "Subtract"
      [] op = "Multiply"  -> "Multiply"
      [] op = "Divide"    -> "Divide"
      [] op = "Remainder" -> "Remainder"

\* TackyGen::make_temporary with a name taken twice
MakeTemporaryNoIncrement(c) ==
    [val |-> <<"Var", "__tmp." \o ToString(c)>>, counter |-> c]

\* TackyGen::make_temporary: the value and the counter after the call
MakeTemporary(c) ==
    [val |-> <<"Var", "__tmp." \o ToString(c)>>, counter |-> c + 1]

RECURSIVE ExpressionRightFirst(_, _, _)
\* TackyGen::expression, were the right operand of a Binary lowered before
\* the left one
ExpressionRightFirst(expr, c, instructions) ==
    CASE expr[1] = "Constant" ->
            [val |-> <<"Constant", expr[2]>>, counter |-> c, instructions |-> instructions]
      [] expr[1] = "Unary" ->
            LET src == ExpressionRightFirst(expr[3], c, instructions)
                dst == MakeTemporary(src.counter)
                instruction == <<"Unary", TackyUnaryOperator(expr[2]), src.val, dst.val>>
            IN  [val |-> dst.val, counter |-> dst.counter,
                 instructions |-> Append(src.instructions, instruction)]
      [] expr[1] = "Binary" ->
            LET right == ExpressionRightFirst(expr[4], c, instructions)
                left == ExpressionRightFirst(expr[3], right.counter, right.instructions)
                dst == MakeTemporary(left.counter)
                instruction == <<"Binary", TackyBinaryOperator(expr[2]),
                                 left.val, right.val, dst.val>>
            IN  [val |-> dst.val, counter |-> dst.counter,
                 instructions |-> Append(left.instructions, instruction)]

RECURSIVE Expression(_, _, _)
\* TackyGen::expression(expr, &mut instructions) with self.counter = c
Expression(expr, c, instructions) ==
    CASE expr[1] = "Constant" ->
            [val |-> <<"Constant", expr[2]>>, counter |-> c, instructions |-> instructions]
      [] expr[1] = "Unary" ->
            LET src == Expression(expr[3], c, instructions)
                dst == MakeTemporary(src.counter)
                instruction == <<"Unary", TackyUnaryOperator(expr[2]), src.val, dst.val>>
            IN  [val |-> dst.val, counter |-> dst.counter,
                 instructions |-> Append(src.instructions, instruction)]
      [] expr[1] = "Binary" ->
            LET left == Expression(expr[3], c, instructions)
                right == Expression(expr[4], left.counter, left.instructions)
                dst == MakeTemporary(right.counter)
                instruction == <<"Binary", TackyBinaryOperator(expr[2]),
                                 left.val, right.val, dst.val>>
            IN  [val |-> dst.val, counter |-> dst.counter,
                 instructions |-> Append(right.instructions, instruction)]

\* TackyGen::instructions(stmt) with self.counter = c
TackyInstructions(stmt, c) ==
    LET e == Expression(stmt[2], c, <<>>)
    IN  [body |-> Append(e.instructions, <<"Return", e.val>>), counter |-> e.counter]

\* TackyGen::new with the counter of the previous compilation kept
TackyGenNewStale(old) == old

\* TackyGen::new: the counter of a fresh generator
TackyGenNew(old) == 0

\* tacky(ast): program -> function -> instructions, on a fresh TackyGen
Tacky(p, old) ==
    LET t == TackyInstructions(p.function_definition.body, TackyGenNew(old))
    IN  [function |-> [name |-> p.function_definition.name, body |-> t.body],
         counter |-> t.counter]

(***************************************************************************)
(* Assembly selection (assembly.rs).                                       *)
(***************************************************************************)
\* impl From<tacky::UnaryOperator> for assembly::UnaryOperator
AsmUnaryOperator(op) ==
    CASE op = "Complement" -> "Not"
      [] op = "Negate"     -> "Neg"

\* impl TryFrom<tacky::BinaryOperator> for assembly::BinaryOperator;
\* <<"Err", "blub">> for Divide and Remainder
AsmBinaryOperator(op) ==
    CASE op = "Add"       -> <<"Ok", "Add">>
      [] op = "Subtract"  -> <<"Ok", "Sub">>
      [] op = "Multiply"  -> <<"Ok", "Mult">>
      [] op = "Divide"    -> <<"Err", "blub">>
      [] op = "Remainder" -> <<"Err", "blub">>

\* impl From<tacky::Value> for Operand, were a variable given a stack slot
\* right away
OperandFromSlot(v) ==
    CASE v[1] = "Constant" -> <<"Imm", v[2]>>
      [] v[1] = "Var"      -> <<"Stack", 4>>

\* impl From<tacky::Value> for Operand
OperandFrom(v) ==
    CASE v[1] = "Constant" -> <<"Imm", v[2]>>
      [] v[1] = "Var"      -> <<"Pseudo", v[2]>>

\* the closure of instructions(), were the arm for any Binary instruction
\* tried before the arms for Divide and Remainder
SelectInstructionGeneralFirst(i) ==
    CASE i[1] = "Return" ->
            << <<"Mov", OperandFrom(i[2]), <<"Register", "AX">> >>, <<"Ret">> >>
      [] i[1] = "Unary" ->
            << <<"Mov", OperandFrom(i[3]), OperandFrom(i[4])>>,
               <<"Unary", AsmUnaryOperator(i[2]), OperandFrom(i[4])>> >>
      [] i[1] = "Binary" ->
            IF AsmBinaryOperator(i[2])[1] = "Ok"
            THEN << <<"Mov", OperandFrom(i[3]), OperandFrom(i[5])>>,
                    <<"Binary", AsmBinaryOperator(i[2])[2], OperandFrom(i[4]),
                      OperandFrom(i[5])>> >>
            ELSE << <<"panic">> >>

\* the closure of instructions(): the instructions selected for one TAC
\* instruction; <<"panic">> stands for the failed expect() of try_into
SelectInstruction(i) ==
    CASE i[1] = "Return" ->
            << <<"Mov", OperandFrom(i[2]), <<"Register", "AX">> >>, <<"Ret">> >>
      [] i[1] = "Unary" ->
            LET dst == OperandFrom(i[4])
            IN  << <<"Mov", OperandFrom(i[3]), dst>>,
                   <<"Unary", AsmUnaryOperator(i[2]), dst>> >>
      [] i[1] = "Binary" /\ i[2] = "Divide" ->
            << <<"Mov", OperandFrom(i[3]), <<"Register", "AX">> >>,
               <<"Cdq">>,
               <<"Idiv", OperandFrom(i[4])>>,
               <<"Mov", <<"Register", "AX">>, OperandFrom(i[5])>> >>
      [] i[1] = "Binary" /\ i[2] = "Remainder" ->
            << <<"Mov", OperandFrom(i[3]), <<"Register", "AX">> >>,
               <<"Cdq">>,
               <<"Idiv", OperandFrom(i[4])>>,
               <<"Mov", <<"Register", "DX">>, OperandFrom(i[5])>> >>
      [] i[1] = "Binary" /\ i[2] \notin {"Divide", "Remainder"} ->
            LET dst == OperandFrom(i[5])
                operator == AsmBinaryOperator(i[2])
            IN  IF operator[1] = "Ok"
                THEN << <<"Mov", OperandFrom(i[3]), dst>>,
                        <<"Binary", operator[2], OperandFrom(i[4]), dst>> >>
                ELSE << <<"panic">> >>

RECURSIVE Instructions(_)
\* instructions(is): flat_map of the selection over the TAC list
Instructions(is) ==
    IF is = <<>> THEN <<>>
    ELSE SelectInstruction(Head(is)) \o Instructions(Tail(is))

\* function_definition(function)
FunctionDefinition(function) ==
    [name |-> function.name, instructions |-> Instructions(function.body)]

(***************************************************************************)
(* Pseudo replacement (assembly.rs).                                       *)
(***************************************************************************)
\* the empty HashMap<String, u32>
EmptyMap == [n \in {} |-> 0]

\* stack_offset, were only the first occurrence of a pseudo register rewritten
StackOffsetKeepKnown(op, map, off) ==
    IF op[1] = "Pseudo" /\ op[2] \notin DOMAIN map
    THEN [op |-> <<"Stack", off + 4>>, map |-> (op[2] :> (off + 4)) @@ map,
          offset |-> off + 4]
    ELSE [op |-> op, map |-> map, offset |-> off]

\* stack_offset(op, &mut map, offset): the operand, the map and the u32
\* returned
StackOffset(op, map, off) ==
    IF op[1] = "Pseudo"
    THEN LET m == IF op[2] \in DOMAIN map THEN map ELSE (op[2] :> (off + 4)) @@ map
             o == m[op[2]]
         IN  [op |-> <<"Stack", o>>, map |-> m, offset |-> o]
    ELSE [op |-> op, map |-> map, offset |-> off]

\* the closure of replace_pseudo_registers(): one instruction rewritten, with
\* the map and the running offset after it
ReplaceInstruction(i, map, off) ==
    CASE i[1] = "Mov" ->
            LET s == StackOffset(i[2], map, off)
                d == StackOffset(i[3], s.map, s.offset)
            IN  [i |-> <<"Mov", s.op, d.op>>, map |-> d.map, offset |-> d.offset]
      [] i[1] = "Unary" ->
            LET o == StackOffset(i[3], map, off)
            IN  [i |-> <<"Unary", i[2], o.op>>, map |-> o.map, offset |-> o.offset]
      [] i[1] = "Binary" ->
            LET s == StackOffset(i[3], map, off)
                d == StackOffset(i[4], s.map, s.offset)
            IN  [i |-> <<"Binary", i[2], s.op, d.op>>, map |-> d.map, offset |-> d.offset]
      [] i[1] = "Idiv" ->
            LET o == StackOffset(i[2], map, off)
            IN  [i |-> <<"Idiv", o.op>>, map |-> o.map, offset |-> o.offset]
      [] i[1] \in {"AllocateStack", "Ret", "Cdq"} ->
            [i |-> i, map |-> map, offset |-> off]

RECURSIVE ReplaceFrom(_, _, _)
\* the map() of replace_pseudo_registers over the instruction list, from a
\* given map and running offset
ReplaceFrom(is, map, off) ==
    IF is = <<>> THEN [instructions |-> <<>>, map |-> map, offset |-> off]
    ELSE LET h == ReplaceInstruction(Head(is), map, off)
             t == ReplaceFrom(Tail(is), h.map, h.offset)
         IN  [instructions |-> <<h.i>> \o t.instructions, map |-> t.map,
              offset |-> t.offset]

\* replace_pseudo_registers(program): the rewritten instructions and the offset
ReplacePseudoRegisters(is) == ReplaceFrom(is, EmptyMap, 0)

(***************************************************************************)
(* Legalization (assembly.rs, fixing_up).                                  *)
(***************************************************************************)
\* the closure of fixing_up() without the rewrite of Mov{Stack, Stack}
FixInstructionKeepMov(i) ==
    CASE i[1] = "Binary" /\ i[2] \in {"Add", "Sub"}
                 /\ i[3][1] = "Stack" /\ i[4][1] = "Stack" ->
            << <<"Mov", i[3], <<"Register", "R10">> >>,
               <<"Binary", i[2], <<"Register", "R10">>, i[4]>> >>
      [] i[1] = "Idiv" /\ i[2][1] = "Imm" ->
            << <<"Mov", i[2], <<"Register", "R10">> >>,
               <<"Idiv", <<"Register", "R10">> >> >>
      [] OTHER -> <<i>>

\* the closure of fixing_up(), were the product of the Mult rewrite left in
\* R11
FixInstructionNoStore(i) ==
    CASE i[1] = "Mov" /\ i[2][1] = "Stack" /\ i[3][1] = "Stack" ->
            << <<"Mov", i[2], <<"Register", "R10">> >>,
               <<"Mov", <<"Register", "R10">>, i[3]>> >>
      [] i[1] = "Binary" /\ i[2] \in {"Add", "Sub"}
                 /\ i[3][1] = "Stack" /\ i[4][1] = "Stack" ->
            << <<"Mov", i[3], <<"Register", "R10">> >>,
               <<"Binary", i[2], <<"Register", "R10">>, i[4]>> >>
      [] i[1] = "Binary" /\ i[2] = "Mult"
                 /\ i[3][1] = "Stack" /\ i[4][1] = "Stack" ->
            << <<"Mov", i[4], <<"Register", "R11">> >>,
               <<"Binary", i[2], i[3], <<"Register", "R11">> >> >>
      [] i[1] = "Idiv" /\ i[2][1] = "Imm" ->
            << <<"Mov", i[2], <<"Register", "R10">> >>,
               <<"Idiv", <<"Register", "R10">> >> >>
      [] OTHER -> <<i>>

\* the closure of fixing_up(): the instructions one instruction is rewritten to
FixInstruction(i) ==
    CASE i[1] = "Mov" /\ i[2][1] = "Stack" /\ i[3][1] = "Stack" ->
            << <<"Mov", i[2], <<"Register", "R10">> >>,
               <<"Mov", <<"Register", "R10">>, i[3]>> >>
      [] i[1] = "Binary" /\ i[2] \in {"Add", "Sub"}
                 /\ i[3][1] = "Stack" /\ i[4][1] = "Stack" ->
            << <<"Mov", i[3], <<"Register", "R10">> >>,
               <<"Binary", i[2], <<"Register", "R10">>, i[4]>> >>
      [] i[1] = "Binary" /\ i[2] = "Mult"
                 /\ i[3][1] = "Stack" /\ i[4][1] = "Stack" ->
            << <<"Mov", i[4], <<"Register", "R11">> >>,
               <<"Binary", i[2], i[3], <<"Register", "R11">> >>,
               <<"Mov", <<"Register", "R11">>, i[4]>> >>
      [] i[1] = "Idiv" /\ i[2][1] = "Imm" ->
            << <<"Mov", i[2], <<"Register", "R10">> >>,
               <<"Idiv", <<"Register", "R10">> >> >>
      [] OTHER -> <<i>>

RECURSIVE FixAll(_)
\* the flat_map of fixing_up() over the instruction list
FixAll(is) ==
    IF is = <<>> THEN <<>> ELSE FixInstruction(Head(is)) \o FixAll(Tail(is))

\* fixing_up(program, stack_size): AllocateStack inserted at 0, then the rewrite
FixingUp(is, stack_size) == FixAll(<< <<"AllocateStack", stack_size>> >> \o is)

\* assembly(program): selection, pseudo replacement, fixing up
Assembly(p) ==
    LET f == FunctionDefinition(p.function)
        r == ReplacePseudoRegisters(f.instructions)
    IN  [function |-> [name |-> f.name,
                       instructions |-> FixingUp(r.instructions, r.offset)]]

(***************************************************************************)
(* Code generation (codegen.rs): the text of each instruction.  The result *)
(* of rendering is <<"Ok", text>>, <<"Panic">> where operand() panics, or  *)
(* <<"NoArm">> where the match of instruction() has no arm for the         *)
(* instruction.                                                            *)
(***************************************************************************)
\* impl Display for assembly::Register
DisplayRegister(r) ==
    CASE r = "AX"  -> "%eax"
      [] r = "DX"  -> "%edx"
      [] r = "R10" -> "%r10d"
      [] r = "R11" -> "%r11d"

\* impl Display for assembly::UnaryOperator
DisplayUnaryOperator(op) ==
    CASE op = "Neg" -> "negl"
      [] op = "Not" -> "notl"

\* impl Display for assembly::BinaryOperator
DisplayBinaryOperator(op) ==
    CASE op = "Add"  -> "addl"
      [] op = "Sub"  -> "subl"
      [] op = "Mult" -> "imull"

\* impl Display for assembly::Operand
DisplayOperand(op) ==
    CASE op[1] = "Imm"      -> "$" \o ToString(op[2])
      [] op[1] = "Register" -> DisplayRegister(op[2])
      [] op[1] = "Pseudo"   -> op[2]
      [] op[1] = "Stack"    -> "-" \o ToString(op[2]) \o "(%rbp)"

\* codegen::instruction; codegen::operand panics on a pseudo register
CodegenInstruction(i) ==
    CASE i[1] = "Mov" ->
            IF i[2][1] = "Pseudo" \/ i[3][1] = "Pseudo" THEN <<"Panic">>
            ELSE <<"Ok", "\tmovl\t" \o DisplayOperand(i[2]) \o ", " \o DisplayOperand(i[3])>>
      [] i[1] = "Unary" ->
            <<"Ok", "\t" \o DisplayUnaryOperator(i[2]) \o "\t" \o DisplayOperand(i[3])>>
      [] i[1] = "AllocateStack" -> <<"Ok", "\tsubq\t$" \o ToString(i[2]) \o ", %rsp">>
      [] i[1] = "Ret" -> <<"Ok", "\tmovq\t%rbp, %rsp\n\tpopq\t%rbp\n\tret">>
      [] OTHER -> <<"NoArm">>

\* function_definition of codegen.rs: the instructions rendered in list order
CodegenInstructions(is) == [k \in DOMAIN is |-> CodegenInstruction(is[k])]

RECURSIVE Join(_)
\* Vec<String>::join("\n") of rendered instructions
Join(lines) ==
    IF lines = <<>> THEN ""
    ELSE IF Len(lines) = 1 THEN lines[1][2]
    ELSE lines[1][2] \o "\n" \o Join(Tail(lines))

\* codegen::function_definition: the text of the function, unless the
\* rendering of an instruction failed
CodegenFunctionDefinition(name, lines) ==
    IF \E k \in DOMAIN lines : lines[k][1] # "Ok"
    THEN lines[CHOOSE k \in DOMAIN lines :
                  /\ lines[k][1] # "Ok"
                  /\ \A h \in 1 .. (k - 1) : lines[h][1] = "Ok"]
    ELSE <<"Ok", "\t.global " \o name \o "\n" \o name
                    \o ":\n\tpushq\t%rbp\n\tmovq\t%rsp, %rbp\n" \o Join(lines)>>

\* codegen::program
CodegenProgram(function) ==
    IF function[1] # "Ok" THEN function
    ELSE <<"Ok", function[2] \o "\n\n\t.section .note.GNU-stack,\"\",@progbits">>

\* codegen(assembly): the rendered instructions and the text of the program
Codegen(name, is) ==
    [instructions |-> CodegenInstructions(is),
     text |-> CodegenProgram(CodegenFunctionDefinition(name, CodegenInstructions(is)))]

(***************************************************************************)
(* The abstract machine the emitted instruction list runs on: 32-bit       *)
(* wrapping registers AX, DX, R10, R11 and 4-byte stack slots addressed by *)
(* their offset.                                                           *)
(***************************************************************************)
Registers == {"AX", "DX", "R10", "R11"}

\* the operands of one assembly instruction
Operands(i) ==
    CASE i[1] = "Mov"    -> {i[2], i[3]}
      [] i[1] = "Unary"  -> {i[3]}
      [] i[1] = "Binary" -> {i[3], i[4]}
      [] i[1] = "Idiv"   -> {i[2]}
      [] OTHER           -> {}

\* all operands of an instruction list
AllOperands(is) == UNION {Operands(is[k]) : k \in DOMAIN is}

\* the stack offsets an instruction list mentions
StackSlots(is) == {o[2] : o \in {x \in AllOperands(is) : x[1] = "Stack"}}

\* a machine whose registers and slots all hold the value j
InitMachine(slots, j) ==
    [reg |-> [r \in Registers |-> j], stack |-> [o \in slots |-> j], status |-> "running"]

ReadOperand(m, op) ==
    CASE op[1] = "Imm"      -> op[2]
      [] op[1] = "Register" -> m.reg[op[2]]
      [] op[1] = "Stack"    -> m.stack[op[2]]

WriteOperand(m, op, v) ==
    CASE op[1] = "Register" -> [m EXCEPT !.reg[op[2]] = v]
      [] op[1] = "Stack"    -> [m EXCEPT !.stack[op[2]] = v]
      [] OTHER              -> [m EXCEPT !.status = "fault"]

SignExtension(a) == IF a < 0 THEN -1 ELSE 0

\* the effect of one instruction
ExecInstruction(i, m) ==
    CASE i[1] = "Mov" -> WriteOperand(m, i[3], ReadOperand(m, i[2]))
      [] i[1] = "Unary" /\ i[2] = "Neg" -> WriteOperand(m, i[3], WrapNeg(ReadOperand(m, i[3])))
      [] i[1] = "Unary" /\ i[2] = "Not" -> WriteOperand(m, i[3], WrapNot(ReadOperand(m, i[3])))
      [] i[1] = "Binary" /\ i[2] = "Add" ->
            WriteOperand(m, i[4], WrapAdd(ReadOperand(m, i[4]), ReadOperand(m, i[3])))
      [] i[1] = "Binary" /\ i[2] = "Sub" ->
            WriteOperand(m, i[4], WrapSub(ReadOperand(m, i[4]), ReadOperand(m, i[3])))
      [] i[1] = "Binary" /\ i[2] = "Mult" ->
            WriteOperand(m, i[4], WrapMul(ReadOperand(m, i[4]), ReadOperand(m, i[3])))
      [] i[1] = "Cdq" -> [m EXCEPT !.reg["DX"] = SignExtension(m.reg["AX"])]
      [] i[1] = "Idiv" ->
            LET a == m.reg["AX"]
                d == ReadOperand(m, i[2])
            IN  IF m.reg["DX"] = SignExtension(a) /\ DivDefined(a, d)
                THEN [m EXCEPT !.reg["AX"] = TruncDiv(a, d), !.reg["DX"] = TruncRem(a, d)]
                ELSE [m EXCEPT !.status = "fault"]
      [] i[1] = "AllocateStack" -> m
      [] i[1] = "Ret" -> [m EXCEPT !.status = "ret"]
      [] OTHER -> [m EXCEPT !.status = "fault"]

RECURSIVE Exec(_, _)
\* runs the list until Ret, a fault or its end
Exec(is, m) ==
    IF m.status # "running" THEN m
    ELSE IF is = <<>> THEN [m EXCEPT !.status = "end"]
    ELSE Exec(Tail(is), ExecInstruction(Head(is), m))

RECURSIVE Eval(_)
\* the value of an expression in wrapping i32 arithmetic: <<"ok", v>>, or
\* <<"undef">> when a division by zero or a division overflow is evaluated
Eval(e) ==
    CASE e[1] = "Constant" -> <<"ok", e[2]>>
      [] e[1] = "Unary" ->
            LET v == Eval(e[3])
            IN  IF v[1] # "ok" THEN v
                ELSE IF e[2] = "Negate" THEN <<"ok", WrapNeg(v[2])>>
                ELSE <<"ok", WrapNot(v[2])>>
      [] e[1] = "Binary" ->
            LET l == Eval(e[3])
                r == Eval(e[4])
            IN  IF l[1] # "ok" THEN l
                ELSE IF r[1] # "ok" THEN r
                ELSE CASE e[2] = "Add"      -> <<"ok", WrapAdd(l[2], r[2])>>
                       [] e[2] = "Subtract" -> <<"ok", WrapSub(l[2], r[2])>>
                       [] e[2] = "Multiply" -> <<"ok", WrapMul(l[2], r[2])>>
                       [] e[2] = "Divide" ->
                            IF DivDefined(l[2], r[2]) THEN <<"ok", TruncDiv(l[2], r[2])>>
                            ELSE <<"undef">>
                       [] e[2] = "Remainder" ->
                            IF DivDefined(l[2], r[2]) THEN <<"ok", TruncRem(l[2], r[2])>>
                            ELSE <<"undef">>

(***************************************************************************)
(* Input programs of the back end: every expression with at most MaxOps    *)
(* operator nodes over the seven operators, its constants numbered 1, 2,   *)
(* 3, ... from left to right (as in 1-2-3, 1-2*3, (1+2)*(3+4)).            *)
(***************************************************************************)
UnaryOperations == {"Complement", "Negate"}
BinaryOperations == {"Add", "Subtract", "Multiply", "Divide", "Remainder"}

RECURSIVE Leaves(_)
\* number of constants of an expression
Leaves(e) ==
    CASE e[1] = "Constant" -> 1
      [] e[1] = "Unary"    -> Leaves(e[3])
      [] e[1] = "Binary"   -> Leaves(e[3]) + Leaves(e[4])

RECURSIVE OperatorNodes(_)
\* number of Unary and Binary nodes of an expression
OperatorNodes(e) ==
    CASE e[1] = "Constant" -> 0
      [] e[1] = "Unary"    -> 1 + OperatorNodes(e[3])
      [] e[1] = "Binary"   -> 1 + OperatorNodes(e[3]) + OperatorNodes(e[4])

RECURSIVE ExprsWith(_, _)
\* the expressions with exactly k operator nodes whose constants are numbered
\* from s
ExprsWith(k, s) ==
    IF k = 0 THEN {<<"Constant", s>>}
    ELSE {<<"Unary", op, e>> : op \in UnaryOperations, e \in ExprsWith(k - 1, s)}
         \cup UNION {UNION {{<<"Binary", op, l, r>> :
                                op \in BinaryOperations,
                                r \in ExprsWith(k - 1 - kl, s + Leaves(l))} :
                            l \in ExprsWith(kl, s)} :
                     kl \in 0 .. (k - 1)}

\* the expressions with at most n operator nodes, constants numbered from 1
InputExpressions(n) == UNION {ExprsWith(k, 1) : k \in 0 .. n}

\* expressions with more compound sub-expressions than MaxOps allows:
\* (1+2)*((3+4)*(5+6)),  (1+2)*(-(-3)),  ~((1-2)/(3%4))
CompoundExpressions ==
    { <<"Binary", "Multiply",
        <<"Binary", "Add", <<"Constant", 1>>, <<"Constant", 2>> >>,
        <<"Binary", "Multiply",
          <<"Binary", "Add", <<"Constant", 3>>, <<"Constant", 4>> >>,
          <<"Binary", "Add", <<"Constant", 5>>, <<"Constant", 6>> >> >> >>,
      <<"Binary", "Multiply",
        <<"Binary", "Add", <<"Constant", 1>>, <<"Constant", 2>> >>,
        <<"Unary", "Negate", <<"Unary", "Negate", <<"Constant", 3>> >> >> >>,
      <<"Unary", "Complement",
        <<"Binary", "Divide",
          <<"Binary", "Subtract", <<"Constant", 1>>, <<"Constant", 2>> >>,
          <<"Binary", "Remainder", <<"Constant", 3>>, <<"Constant", 4>> >> >> >> }

AstProgram(e) == [function_definition |-> [name |-> "main", body |-> <<"Return", e>>]]

\* values a register or a stack slot may hold before the program writes it
JunkValues == {0, -7}

None == <<"None">>

(***************************************************************************)
(* The back end as a state machine: run_compiler() from the AST on.        *)
(***************************************************************************)
InitCompile ==
    /\ pc = "ast"
    /\ ast \in {AstProgram(e) : e \in InputExpressions(MaxOps) \cup CompoundExpressions}
    /\ tokens = <<>>
    /\ pos = 0
    /\ program = None
    /\ result = None
    /\ counter = 0
    /\ tac = None
    /\ sel = <<>>
    /\ asm = <<>>
    /\ offset = 0
    /\ machine = None
    /\ run = 1
    /\ source = <<>>
    /\ chars = <<>>
    /\ current = 0
    /\ code = <<>>
    /\ start = None

\* let tacky = myc::tacky(ast)
TackyStep ==
    /\ pc = "ast"
    /\ LET t == Tacky(ast, counter)
       IN  /\ tac' = [function |-> t.function]
           /\ counter' = t.counter
    /\ pc' = "tacky"
    /\ UNCHANGED <<tokens, pos, program, result, ast, sel, asm, offset, machine, run,
                 source, chars, current, code, start>>

\* assembly(): function_definition(program.function)
SelectStep ==
    /\ pc = "tacky"
    /\ sel' = FunctionDefinition(tac.function).instructions
    /\ asm' = sel'
    /\ pc' = "selected"
    /\ UNCHANGED <<tokens, pos, program, result, ast, counter, tac, offset, machine, run,
                 source, chars, current, code, start>>

\* assembly(): replace_pseudo_registers(p)
ReplaceStep ==
    /\ pc = "selected"
    /\ LET r == ReplacePseudoRegisters(asm)
       IN  /\ asm' = r.instructions
           /\ offset' = r.offset
    /\ pc' = "replaced"
    /\ UNCHANGED <<tokens, pos, program, result, ast, counter, tac, sel, machine, run,
                 source, chars, current, code, start>>

\* assembly(): fixing_up(p, offset)
FixStep ==
    /\ pc = "replaced"
    /\ asm' = FixingUp(asm, offset)
    /\ pc' = "assembled"
    /\ UNCHANGED <<tokens, pos, program, result, ast, counter, tac, sel, offset, machine, run,
                 source, chars, current, code, start>>

\* let code = myc::codegen(assembly): every instruction is rendered
CodegenStep ==
    /\ pc = "assembled"
    /\ code' = Codegen(tac.function.name, asm)
    /\ pc' = "emitted"
    /\ UNCHANGED <<tokens, pos, program, result, ast, counter, tac, sel, asm, offset,
                   machine, run, source, chars, current, start>>

\* the emitted program is run on the abstract machine
RunStep ==
    /\ pc = "emitted"
    /\ \E j \in JunkValues : machine' = Exec(asm, InitMachine(StackSlots(asm), j))
    /\ pc' = "done"
    /\ UNCHANGED <<tokens, pos, program, result, ast, counter, tac, sel, asm, offset, run,
                 source, chars, current, code, start>>

\* the same AST is compiled once more
Recompile ==
    /\ pc = "done"
    /\ run < MaxRuns
    /\ run' = run + 1
    /\ pc' = "ast"
    /\ tac' = None
    /\ sel' = <<>>
    /\ asm' = <<>>
    /\ offset' = 0
    /\ machine' = None
    /\ code' = <<>>
    /\ UNCHANGED <<tokens, pos, program, result, ast, counter,
                   source, chars, current, start>>

NextCompile ==
    \/ TackyStep
    \/ SelectStep
    \/ ReplaceStep
    \/ FixStep
    \/ CodegenStep
    \/ RunStep
    \/ Recompile

SpecCompile == InitCompile /\ [][NextCompile]_vars

(***************************************************************************)
(* Legalization of a single instruction.  One instruction of a shape that  *)
(* fixing_up() rewrites is legalized and its replacement is executed, one  *)
(* instruction at a time, from a freely chosen machine state.              *)
(***************************************************************************)
\* the stack slots of the frame
FrameSlots == {4 * k : k \in 1 .. MaxSlots}

StackOperands == {<<"Stack", o>> : o \in FrameSlots}

\* the immediate divisors
Divisors == {0, -1, 2}

\* the instructions of the four shapes fixing_up() rewrites
RewrittenInstructions ==
    {<<"Mov", src, dst>> : src \in StackOperands, dst \in StackOperands}
    \cup {<<"Binary", operator, x[1], x[2]>> :
             operator \in {"Add", "Sub", "Mult"}, x \in StackOperands \X StackOperands}
    \cup {<<"Idiv", <<"Imm", d>> >> : d \in Divisors}

\* the values a register or a slot may hold before the instruction
AXValues == {MinI32, -7, 0, 6}
DXValues == {-1, 0, 5}
ScratchValues == {0, 9}
SlotValues == {MaxI32, -7, 2}

\* the machine states an instruction is run from
StartMachines ==
    {[reg |-> [r \in Registers |-> CASE r = "AX"  -> x[1]
                                     [] r = "DX"  -> x[2]
                                     [] r = "R10" -> x[3]
                                     [] r = "R11" -> x[4]],
      stack |-> st, status |-> "running"] :
        x \in AXValues \X DXValues \X ScratchValues \X ScratchValues,
        st \in [FrameSlots -> SlotValues]}

InitFix ==
    /\ pc = "legalize"
    /\ sel \in {<<i>> : i \in RewrittenInstructions}
    /\ start \in StartMachines
    /\ machine = start
    /\ asm = <<>>
    /\ ast = None
    /\ tokens = <<>>
    /\ pos = 0
    /\ program = None
    /\ result = None
    /\ counter = 0
    /\ tac = None
    /\ offset = 0
    /\ run = 1
    /\ source = <<>>
    /\ chars = <<>>
    /\ current = 0
    /\ code = <<>>

\* the closure of fixing_up() is applied to the instruction
FixOneStep ==
    /\ pc = "legalize"
    /\ asm' = FixInstruction(sel[1])
    /\ pc' = "execute"
    /\ UNCHANGED <<tokens, pos, program, result, ast, counter, tac, sel, offset, machine, run,
                   source, chars, current, code, start>>

\* the machine executes the next instruction of the replacement
ExecOneStep ==
    /\ pc = "execute"
    /\ asm # <<>>
    /\ machine.status = "running"
    /\ machine' = ExecInstruction(Head(asm), machine)
    /\ asm' = Tail(asm)
    /\ UNCHANGED <<pc, tokens, pos, program, result, ast, counter, tac, sel, offset, run,
                   source, chars, current, code, start>>

NextFix ==
    \/ FixOneStep
    \/ ExecOneStep

SpecFix == InitFix /\ [][NextFix]_vars

(***************************************************************************)
(* Parser (parser.rs).  A Result is <<"Ok", value>> or <<"Err", error>>;   *)
(* the parser functions return it with the stream position they leave and  *)
(* `pulled`, the number of items the Peekable has asked its iterator for:  *)
(* peek() and next() at position p both ask for item p + 1.                *)
(***************************************************************************)
Ok(v, p, n) == [res |-> <<"Ok", v>>, pos |-> p, pulled |-> n]
Err(e, p, n) == [res |-> <<"Err", e>>, pos |-> p, pulled |-> n]
IsOk(r) == r.res[1] = "Ok"

UnexpectedToken(t) == <<"UnexpectedToken", t>>
UnexpectedEOF == <<"UnexpectedEOF">>

\* token_stream.peek(): <<"Some", t>> or None
Peek(toks, p) == IF p < Len(toks) THEN <<"Some", toks[p + 1]>> ELSE None

\* Parser::is_empty
IsEmpty(toks, p) == Peek(toks, p) = None

\* Parser::bump: the next token, if any, and the position after it
Bump(toks, p) ==
    IF p < Len(toks) THEN [tok |-> <<"Some", toks[p + 1]>>, pos |-> p + 1, pulled |-> p + 1]
    ELSE [tok |-> None, pos |-> p, pulled |-> p + 1]

\* Parser::expect_token, were the end of the stream reported as a mismatch of
\* the expected token
ExpectTokenEOFAsMismatch(toks, p, expected_token) ==
    LET t == Peek(toks, p)
    IN  IF t = None THEN Err(UnexpectedToken(expected_token), p, p + 1)
        ELSE IF t[2] # expected_token THEN Err(UnexpectedToken(t[2]), p, p + 1)
        ELSE Ok(<<>>, p, p + 1)

\* Parser::expect_token
ExpectToken(toks, p, expected_token) ==
    LET t == Peek(toks, p)
    IN  IF t = None THEN Err(UnexpectedEOF, p, p + 1)
        ELSE IF t[2] # expected_token THEN Err(UnexpectedToken(t[2]), p, p + 1)
        ELSE Ok(<<>>, p, p + 1)

\* the ? operator on a Result r: the Err is returned at once, the Ok value
\* goes on into K
Try(r, K(_)) == IF IsOk(r) THEN K(r) ELSE r

\* Parser::bump_if_equal, were the next token taken without expect_token
BumpIfEqualUnchecked(toks, p, expected_token) ==
    IF Bump(toks, p).tok = None THEN Err(UnexpectedEOF, p, Bump(toks, p).pulled)
    ELSE Ok(Bump(toks, p).tok[2], Bump(toks, p).pos, Bump(toks, p).pulled)

\* Parser::bump_if_equal
BumpIfEqual(toks, p, expected_token) ==
    Try(ExpectToken(toks, p, expected_token),
        LAMBDA e : Ok(Bump(toks, p).tok[2], Bump(toks, p).pos, Bump(toks, p).pulled))

\* is_binary_operator
IsBinaryOperator(token) ==
    token[1] \in {"Minus", "Plus", "Star", "Slash", "Percent"}

\* precedence
Precedence(token) ==
    CASE token[1] \in {"Star", "Slash", "Percent"} -> 50
      [] token[1] \in {"Minus", "Plus"}            -> 45
      [] OTHER                                     -> 0

\* Parser::parse_binary_operation
ParseBinaryOperation(toks, p) ==
    LET b == Bump(toks, p)
    IN  IF b.tok = None THEN Err(UnexpectedEOF, b.pos, b.pulled)
        ELSE CASE b.tok[2][1] = "Plus"    -> Ok("Add", b.pos, b.pulled)
               [] b.tok[2][1] = "Minus"   -> Ok("Subtract", b.pos, b.pulled)
               [] b.tok[2][1] = "Star"    -> Ok("Multiply", b.pos, b.pulled)
               [] b.tok[2][1] = "Slash"   -> Ok("Divide", b.pos, b.pulled)
               [] b.tok[2][1] = "Percent" -> Ok("Remainder", b.pos, b.pulled)
               [] OTHER                   -> Err(UnexpectedToken(b.tok[2]), b.pos, b.pulled)

\* the min_precedence parse_expression passes on for the right operand, were
\* it the operator's own precedence
RightMinPrecedenceSame(prec) == prec

\* the min_precedence parse_expression passes on for the right operand
RightMinPrecedence(prec) == prec + 1

RECURSIVE ParseExpression(_, _, _)
RECURSIVE ParseExpressionLoop(_, _, _, _)
RECURSIVE ParseFactor(_, _)
RECURSIVE ParseUnaryOperation(_, _, _)

\* Parser::parse_unary_operation(token)
ParseUnaryOperation(toks, p, token) ==
    IF token[1] \notin {"Minus", "Tilde"} THEN Err(UnexpectedToken(token), p, p)
    ELSE Try(ParseExpression(toks, p, 0),
             LAMBDA exp :
                Ok(<<"Unary", IF token[1] = "Minus" THEN "Negate" ELSE "Complement",
                     exp.res[2]>>, exp.pos, exp.pulled))

\* Parser::parse_factor
ParseFactor(toks, p) ==
    LET b == Bump(toks, p)
    IN  IF b.tok = None THEN Err(UnexpectedEOF, b.pos, b.pulled)
        ELSE CASE b.tok[2][1] = "Constant" -> Ok(<<"Constant", b.tok[2][2]>>, b.pos, b.pulled)
               [] b.tok[2][1] \in {"Minus", "Tilde"} ->
                    ParseUnaryOperation(toks, b.pos, b.tok[2])
               [] b.tok[2][1] = "OpenParenthesis" ->
                    Try(ParseExpression(toks, b.pos, 0),
                        LAMBDA exp :
                           Try(BumpIfEqual(toks, exp.pos, <<"CloseParenthesis">>),
                               LAMBDA c : Ok(exp.res[2], c.pos, c.pulled)))
               [] OTHER -> Err(UnexpectedToken(b.tok[2]), b.pos, b.pulled)

\* the loop of Parser::parse_expression, entered with the expression `left`
ParseExpressionLoop(toks, p, min_precedence, left) ==
    LET next_token == Peek(toks, p)
    IN  IF next_token = None \/ ~IsBinaryOperator(next_token[2]) THEN Ok(left, p, p + 1)
        ELSE IF Precedence(next_token[2]) < min_precedence THEN Ok(left, p, p + 1)
        ELSE Try(ParseBinaryOperation(toks, p),
                 LAMBDA binary_operator :
                    Try(ParseExpression(toks, binary_operator.pos,
                                        RightMinPrecedence(Precedence(next_token[2]))),
                        LAMBDA right :
                           ParseExpressionLoop(toks, right.pos, min_precedence,
                               <<"Binary", binary_operator.res[2], left, right.res[2]>>)))

\* Parser::parse_expression(min_precedence)
ParseExpression(toks, p, min_precedence) ==
    Try(ParseFactor(toks, p),
        LAMBDA left : ParseExpressionLoop(toks, left.pos, min_precedence, left.res[2]))

\* Parser::parse_statement
ParseStatement(toks, p) ==
    Try(BumpIfEqual(toks, p, <<"Return">>),
        LAMBDA r :
           Try(ParseExpression(toks, r.pos, 0),
               LAMBDA expression :
                  Try(BumpIfEqual(toks, expression.pos, <<"Semicolon">>),
                      LAMBDA s : Ok(<<"Return", expression.res[2]>>, s.pos, s.pulled))))

\* the body and the closing brace of Parser::parse_function_definition
ParseFunctionBody(toks, p, name) ==
    Try(ParseStatement(toks, p),
        LAMBDA body :
           Try(BumpIfEqual(toks, body.pos, <<"CloseBrace">>),
               LAMBDA e : Ok([name |-> name, body |-> body.res[2]], e.pos, e.pulled)))

\* Parser::parse_function_definition after the name: ( void ) { statement }
ParseFunctionRest(toks, p, name) ==
    Try(BumpIfEqual(toks, p, <<"OpenParenthesis">>),
        LAMBDA a :
           Try(BumpIfEqual(toks, a.pos, <<"Void">>),
               LAMBDA b :
                  Try(BumpIfEqual(toks, b.pos, <<"CloseParenthesis">>),
                      LAMBDA c :
                         Try(BumpIfEqual(toks, c.pos, <<"OpenBrace">>),
                             LAMBDA d : ParseFunctionBody(toks, d.pos, name)))))

\* Parser::parse_function_definition
ParseFunctionDefinition(toks, p) ==
    Try(BumpIfEqual(toks, p, <<"Int">>),
        LAMBDA i :
           LET t == Bump(toks, i.pos)
           IN  IF t.tok = None THEN Err(UnexpectedEOF, t.pos, t.pulled)
               ELSE IF t.tok[2][1] # "Identifier"
                    THEN Err(UnexpectedToken(t.tok[2]), t.pos, t.pulled)
                    ELSE ParseFunctionRest(toks, t.pos, t.tok[2][2]))

\* Parser::parse_program
ParseProgram(toks, p) ==
    Try(ParseFunctionDefinition(toks, p),
        LAMBDA f : Ok([function_definition |-> f.res[2]], f.pos, f.pulled))

\* the end of parse(), were the stream not looked at after parse_program
ParseReturnNoCheck(toks, p, prog) == [res |-> prog, pos |-> p, pulled |-> p]

\* the end of parse(): the Result it returns for the Result of parse_program
\* and the stream position parse_program left
ParseReturn(toks, p, prog) ==
    IF ~IsEmpty(toks, p)
    THEN Err(UnexpectedToken(Bump(toks, p).tok[2]), Bump(toks, p).pos, Bump(toks, p).pulled)
    ELSE [res |-> prog, pos |-> p, pulled |-> p + 1]

\* parse(token_stream)
Parse(toks) ==
    LET prog == ParseProgram(toks, 0)
    IN  ParseReturn(toks, prog.pos, prog.res).res

(***************************************************************************)
(* Lexer (lexer.rs).  A char is its Unicode scalar value; the model covers *)
(* the chars 0 .. 255.  A String is the sequence of its chars.             *)
(***************************************************************************)
\* const EOF: char = '\0'
EOF == 0

\* char::is_whitespace on 0 .. 255: tab .. carriage return, space, NEL, NBSP
IsWhitespace(c) == c \in (9 .. 13) \cup {32, 133, 160}

\* the decimal digits '0'..='9'
IsDigit(c) == c \in 48 .. 57

\* char::is_alphanumeric on 0 .. 255: the ASCII digits and letters, and the
\* Latin-1 letters and numeric chars
IsAlphanumeric(c) ==
    c \in (48 .. 57) \cup (65 .. 90) \cup (97 .. 122)
          \cup {170, 178, 179, 181, 185, 186, 188, 189, 190}
          \cup (192 .. 214) \cup (216 .. 246) \cup (248 .. 255)

\* "int", "void", "return"
KeywordInt == <<105, 110, 116>>
KeywordVoid == <<118, 111, 105, 100>>
KeywordReturn == <<114, 101, 116, 117, 114, 110>>

\* identifier_to_token, were "return" not a keyword
IdentifierToTokenNoReturn(identifier) ==
    CASE identifier = KeywordInt  -> <<"Int">>
      [] identifier = KeywordVoid -> <<"Void">>
      [] OTHER                    -> <<"Identifier", identifier>>

\* identifier_to_token
IdentifierToToken(identifier) ==
    CASE identifier = KeywordInt    -> <<"Int">>
      [] identifier = KeywordVoid   -> <<"Void">>
      [] identifier = KeywordReturn -> <<"Return">>
      [] OTHER                      -> <<"Identifier", identifier>>

RECURSIVE ParseI32OffByOne(_, _, _)
\* str::parse::<i32>, were the overflow check off by one at the upper bound
ParseI32OffByOne(buffer, k, acc) ==
    IF k > Len(buffer) THEN <<"Ok", acc>>
    ELSE IF ~IsDigit(buffer[k]) THEN <<"Err", "InvalidDigit">>
    ELSE IF acc >= (MaxI32 - (buffer[k] - 48)) \div 10 THEN <<"Err", "PosOverflow">>
    ELSE ParseI32OffByOne(buffer, k + 1, acc * 10 + (buffer[k] - 48))

RECURSIVE ParseI32(_, _, _)
\* str::parse::<i32> of a buffer that starts with a digit, from its k-th char
\* on with the value acc so far: checked_mul(10) and checked_add(digit)
ParseI32(buffer, k, acc) ==
    IF k > Len(buffer) THEN <<"Ok", acc>>
    ELSE IF ~IsDigit(buffer[k]) THEN <<"Err", "InvalidDigit">>
    ELSE IF acc > (MaxI32 - (buffer[k] - 48)) \div 10 THEN <<"Err", "PosOverflow">>
    ELSE ParseI32(buffer, k + 1, acc * 10 + (buffer[k] - 48))

\* Cursor::new on the chars of the source
CursorNew(cs) ==
    IF cs = <<>> THEN [chars |-> <<>>, current |-> EOF]
    ELSE [chars |-> Tail(cs), current |-> Head(cs)]

\* Cursor::bump: current = chars.next().unwrap_or(EOF)
CursorBump(cursor) == CursorNew(cursor.chars)

RECURSIVE SkipWhitespace(_)
\* Cursor::skip_whitespace
SkipWhitespace(cursor) ==
    IF IsWhitespace(cursor.current) THEN SkipWhitespace(CursorBump(cursor))
    ELSE cursor

RECURSIVE TakeAlphanumeric(_, _)
\* while self.bump().is_alphanumeric() { buffer.push(self.current) }
TakeAlphanumeric(cursor, buffer) ==
    IF IsAlphanumeric(CursorBump(cursor).current)
    THEN TakeAlphanumeric(CursorBump(cursor), Append(buffer, CursorBump(cursor).current))
    ELSE [cursor |-> CursorBump(cursor), buffer |-> buffer]

\* the token Cursor::identifier makes of the buffer
IdentifierToken(taken) ==
    [token |-> <<"Some", IdentifierToToken(taken.buffer)>>, cursor |-> taken.cursor]

\* Cursor::identifier
CursorIdentifier(cursor) == IdentifierToken(TakeAlphanumeric(cursor, <<cursor.current>>))

\* the token Cursor::constant makes of the buffer
ConstantToken(taken) ==
    [token |-> <<"Some", IF ParseI32(taken.buffer, 1, 0)[1] = "Ok"
                         THEN <<"Constant", ParseI32(taken.buffer, 1, 0)[2]>>
                         ELSE <<"Invalid", taken.buffer>> >>,
     cursor |-> taken.cursor]

\* Cursor::constant
CursorConstant(cursor) == ConstantToken(TakeAlphanumeric(cursor, <<cursor.current>>))

\* the arms of Cursor::lex that bump once and return a fixed token
Punctuation(c) ==
    CASE c = 40  -> <<"OpenParenthesis">>
      [] c = 41  -> <<"CloseParenthesis">>
      [] c = 123 -> <<"OpenBrace">>
      [] c = 125 -> <<"CloseBrace">>
      [] c = 59  -> <<"Semicolon">>
      [] c = 43  -> <<"Plus">>
      [] c = 42  -> <<"Star">>
      [] c = 47  -> <<"Slash">>
      [] c = 37  -> <<"Percent">>
      [] c = 126 -> <<"Tilde">>

\* the '-' arm of Cursor::lex, were the char after it not looked at
LexMinusSingle(cursor) ==
    [token |-> <<"Some", <<"Minus">> >>, cursor |-> CursorBump(cursor)]

\* the '-' arm of Cursor::lex
LexMinus(cursor) ==
    IF CursorBump(cursor).current = 45
    THEN [token |-> <<"Some", <<"DoubleMinus">> >>, cursor |-> CursorBump(CursorBump(cursor))]
    ELSE [token |-> <<"Some", <<"Minus">> >>, cursor |-> CursorBump(cursor)]

\* the match of Cursor::lex on self.current, after skip_whitespace
LexMatch(cursor) ==
    CASE cursor.current \in {40, 41, 123, 125, 59, 43, 42, 47, 37, 126} ->
            [token |-> <<"Some", Punctuation(cursor.current)>>,
             cursor |-> CursorBump(cursor)]
      [] cursor.current = 45 -> LexMinus(cursor)
      [] IsDigit(cursor.current) -> CursorConstant(cursor)
      [] cursor.current \in (97 .. 122) \cup (65 .. 90) -> CursorIdentifier(cursor)
      [] cursor.current = EOF -> [token |-> None, cursor |-> cursor]
      [] OTHER -> [token |-> <<"Some", <<"Invalid", <<cursor.current>> >> >>,
                   cursor |-> CursorBump(cursor)]

\* Cursor::lex: the Option<Token> it returns and the cursor it leaves
CursorLex(cursor) == LexMatch(SkipWhitespace(cursor))

RECURSIVE LexFrom(_)
\* the tokens the iterator of lex() yields from a cursor on
LexFrom(cursor) ==
    IF CursorLex(cursor).token = None THEN <<>>
    ELSE <<CursorLex(cursor).token[2]>> \o LexFrom(CursorLex(cursor).cursor)

\* lex(source), collected
Lex(src) == LexFrom(CursorNew(src))

\* the items of a token stream: the tokens it has yielded and those its
\* iterator yields from the cursor on
Stream(toks, cursor) == toks \o LexFrom(cursor)

RECURSIVE Pulled(_, _, _)
RECURSIVE PulledNext(_, _, _)
\* the stream after one more call of chars.lex() that returned r
PulledNext(toks, r, n) ==
    IF r.token = None THEN [tokens |-> toks, cursor |-> r.cursor]
    ELSE Pulled(Append(toks, r.token[2]), r.cursor, n)

\* the tokens yielded and the cursor once the Peekable has asked the iterator
\* for its n-th item: chars.lex() is called for each item not yet yielded
Pulled(toks, cursor, n) ==
    IF Len(toks) >= n THEN [tokens |-> toks, cursor |-> cursor]
    ELSE PulledNext(toks, CursorLex(cursor), n)

RECURSIVE LexAll(_, _)
RECURSIVE LexAllNext(_, _)
\* all() after one more call of chars.lex() that returned r: it stops at the
\* end of the stream and at the first item its closure is false for
LexAllNext(toks, r) ==
    IF r.token = None THEN [tokens |-> toks, cursor |-> r.cursor, all |-> TRUE]
    ELSE IF r.token[2][1] = "Invalid"
         THEN [tokens |-> Append(toks, r.token[2]), cursor |-> r.cursor, all |-> FALSE]
         ELSE LexAll(Append(toks, r.token[2]), r.cursor)

\* token_stream.all(|t| !matches!(t, Token::Invalid(_)))
LexAll(toks, cursor) == LexAllNext(toks, CursorLex(cursor))

RECURSIVE DecimalDigits(_)
\* the decimal digits of a natural number, as chars
DecimalDigits(n) ==
    IF n < 10 THEN <<48 + n>> ELSE Append(DecimalDigits(n \div 10), 48 + (n % 10))

\* i32::to_string
I32ToString(n) ==
    IF n >= 0 THEN DecimalDigits(n)
    ELSE IF n = MinI32 THEN <<45>> \o DecimalDigits(MaxI32 \div 10) \o <<56>>
    ELSE <<45>> \o DecimalDigits(-n)

\* impl Display for Token
Display(token) ==
    CASE token[1] = "Identifier"        -> token[2]
      [] token[1] = "Constant"          -> I32ToString(token[2])
      [] token[1] = "Invalid"           ->
            <<35, 73, 110, 118, 97, 108, 105, 100, 84, 111, 107, 101, 110, 40>>
                \o token[2] \o <<41>>
      [] token = <<"Tilde">>            -> <<126>>
      [] token = <<"Minus">>            -> <<45>>
      [] token = <<"Plus">>             -> <<43>>
      [] token = <<"Star">>             -> <<42>>
      [] token = <<"Slash">>            -> <<47>>
      [] token = <<"Percent">>          -> <<37>>
      [] token = <<"DoubleMinus">>      -> <<45, 45>>
      [] token = <<"Int">>              -> KeywordInt
      [] token = <<"Void">>             -> KeywordVoid
      [] token = <<"Return">>           -> KeywordReturn
      [] token = <<"OpenParenthesis">>  -> <<40>>
      [] token = <<"CloseParenthesis">> -> <<41>>
      [] token = <<"OpenBrace">>        -> <<123>>
      [] token = <<"CloseBrace">>       -> <<125>>
      [] token = <<"Semicolon">>        -> <<59>>

(***************************************************************************)
(* Input token streams of the parser.                                      *)
(***************************************************************************)
\* int main ( void ) { return
Header ==
    << <<"Int">>, <<"Identifier", "main">>, <<"OpenParenthesis">>, <<"Void">>,
       <<"CloseParenthesis">>, <<"OpenBrace">>, <<"Return">> >>

\* ; }
Footer == << <<"Semicolon">>, <<"CloseBrace">> >>

\* what may follow the expression part of a freely chosen input
Tails ==
    { Footer,
      << <<"Semicolon">> >>,
      <<>>,
      << <<"CloseBrace">> >>,
      Footer \o << <<"Identifier", "foo">> >> }

ExprAlphabet ==
    { <<"Constant", 1>>, <<"Constant", 2>>, <<"Minus">>, <<"Plus">>, <<"Tilde">>,
      <<"OpenParenthesis">>, <<"CloseParenthesis">> }

BinaryOperatorTokens ==
    { <<"Plus">>, <<"Minus">>, <<"Star">>, <<"Slash">>, <<"Percent">> }

\* toks is some sequence of at most n tokens of ExprAlphabet, after the header
\* and before one of the tails
FreeInput(toks, n) ==
    \E k \in 0 .. n : \E e \in [1 .. k -> ExprAlphabet] : \E t \in Tails :
        toks = Header \o e \o t

\* the chain 1 op 2 op ... of the operators ops
InfixChain(ops) ==
    [i \in 1 .. (2 * Len(ops) + 1) |->
        IF i % 2 = 1 THEN <<"Constant", (i + 1) \div 2>> ELSE ops[i \div 2]]

\* toks is a program returning a chain of 1 to n binary operators
InfixInput(toks, n) ==
    \E k \in 1 .. n : \E ops \in [1 .. k -> BinaryOperatorTokens] :
        toks = Header \o InfixChain(ops) \o Footer

\* int main ( void ) { return 2 ; }
ValidProgram == Header \o << <<"Constant", 2>> >> \o Footer

\* s without its k-th element
Without(s, k) == SubSeq(s, 1, k - 1) \o SubSeq(s, k + 1, Len(s))

\* toks is the program p cut short anywhere, or with one token missing
BrokenInput(toks, p) ==
    \/ \E n \in 0 .. Len(p) : toks = SubSeq(p, 1, n)
    \/ \E k \in 1 .. Len(p) : toks = Without(p, k)

\* one token of every kind of lexer::Token
TokenKinds ==
    { <<"Identifier", "foo">>, <<"Constant", 1>>, <<"Tilde">>, <<"Minus">>,
      <<"DoubleMinus">>, <<"Plus">>, <<"Star">>, <<"Slash">>, <<"Percent">>,
      <<"Int">>, <<"Void">>, <<"Return">>, <<"OpenParenthesis">>,
      <<"CloseParenthesis">>, <<"OpenBrace">>, <<"CloseBrace">>, <<"Semicolon">>,
      <<"Invalid", "@">> }

\* toks is the program p followed by 1 to n more tokens
TrailingInput(toks, p, n) ==
    \E k \in 1 .. n : \E g \in [1 .. k -> TokenKinds] : toks = p \o g

(***************************************************************************)
(* parse() as a state machine: parse_program, then the end-of-stream check.*)
(***************************************************************************)
InitParse ==
    /\ pc = "tokens"
    /\ \/ FreeInput(tokens, MaxExprTokens)
       \/ InfixInput(tokens, MaxBinaryOps)
       \/ BrokenInput(tokens, ValidProgram)
       \/ TrailingInput(tokens, ValidProgram, MaxTrailing)
    /\ pos = 0
    /\ program = None
    /\ result = None
    /\ ast = None
    /\ counter = 0
    /\ tac = None
    /\ sel = <<>>
    /\ asm = <<>>
    /\ offset = 0
    /\ machine = None
    /\ run = 1
    /\ source = <<>>
    /\ chars = <<>>
    /\ current = 0
    /\ code = <<>>
    /\ start = None

\* the tokens yielded and the cursor are those of the stream
StreamReturn(stream) ==
    /\ tokens' = stream.tokens
    /\ chars' = stream.cursor.chars
    /\ current' = stream.cursor.current

\* what a parser function that returned r leaves: the position and the stream
ParserReturn(r) ==
    /\ pos' = r.pos
    /\ StreamReturn(Pulled(tokens, [chars |-> chars, current |-> current], r.pulled))

\* let program = parser.parse_program(), the parser taking its tokens from
\* the stream as it asks for them
ParseProgramStep ==
    /\ pc \in {"tokens", "lexing"}
    /\ \E r \in {ParseProgram(Stream(tokens, [chars |-> chars, current |-> current]), pos)} :
          /\ program' = r.res
          /\ ParserReturn(r)
    /\ pc' = "program"
    /\ UNCHANGED <<result, ast, counter, tac, sel, asm, offset, machine, run,
                   source, code, start>>

\* if !parser.is_empty() { return Err(UnexpectedToken(parser.bump())) } program
ParseReturnStep ==
    /\ pc = "program"
    /\ \E r \in {ParseReturn(Stream(tokens, [chars |-> chars, current |-> current]),
                              pos, program)} :
          /\ result' = r.res
          /\ ParserReturn(r)
    /\ pc' = "parsed"
    /\ UNCHANGED <<program, ast, counter, tac, sel, asm, offset, machine, run,
                   source, code, start>>

NextParse ==
    \/ ParseProgramStep
    \/ ParseReturnStep

SpecParse == InitParse /\ [][NextParse]_vars

(***************************************************************************)
(* Source texts of the lexer.                                              *)
(***************************************************************************)
\* - space 1 a @ NUL ; e-acute
SourceAlphabet == {45, 32, 49, 97, 64, 0, 59, 233}

\* src is some text of at most n chars of SourceAlphabet
FreeSource(src, n) == \E k \in 0 .. n : src \in [1 .. k -> SourceAlphabet]

\* the tokens of the fixed alphabet
FixedAlphabet ==
    { <<"Int">>, <<"Void">>, <<"Return">>, <<"OpenParenthesis">>,
      <<"CloseParenthesis">>, <<"OpenBrace">>, <<"CloseBrace">>, <<"Semicolon">>,
      <<"Tilde">>, <<"Minus">>, <<"DoubleMinus">>, <<"Plus">>, <<"Star">>,
      <<"Slash">>, <<"Percent">> }

\* src is the text Display renders for a token of the fixed alphabet
DisplayedSource(src) == \E t \in FixedAlphabet : src = Display(t)

\* runs that start with a digit: 0, 10, 007, 1anInvalidIdentifier cut to 1an,
\* 1a2, i32::MAX, i32::MAX + 1, 2147483650, 2^32, 99999999999, i32::MAX with
\* a leading zero, 12e-acute
NumberRuns ==
    { <<48>>, <<49, 48>>, <<48, 48, 55>>, <<49, 97, 110>>, <<49, 97, 50>>,
      <<50, 49, 52, 55, 52, 56, 51, 54, 52, 55>>,
      <<50, 49, 52, 55, 52, 56, 51, 54, 52, 56>>,
      <<50, 49, 52, 55, 52, 56, 51, 54, 53, 48>>,
      <<52, 50, 57, 52, 57, 54, 55, 50, 57, 54>>,
      <<57, 57, 57, 57, 57, 57, 57, 57, 57, 57, 57>>,
      <<48, 50, 49, 52, 55, 52, 56, 51, 54, 52, 55>>,
      <<49, 50, 233>> }

\* what may stand before and after a run:  nothing, a space, ";", "+1", "(", " x"
RunContexts == { <<>>, <<32>>, <<59>>, <<43, 49>>, <<40>>, <<32, 120>> }

\* src is a run that starts with a digit, in some context
NumberSource(src) ==
    \E r \in NumberRuns : \E a \in RunContexts : \E b \in RunContexts :
        src = a \o r \o b

\* "int main(void){return " and ";}"
HeaderSource ==
    KeywordInt \o <<32, 109, 97, 105, 110, 40>> \o KeywordVoid \o <<41, 123>>
        \o KeywordReturn \o <<32>>
FooterSource == <<59, 125>>

\* - 1 2 space ( )
ExprChars == {45, 49, 50, 32, 40, 41}

\* src is a program returning some text of 1 to n chars of ExprChars
ProgramSource(src, n) ==
    \E k \in 1 .. n : \E e \in [1 .. k -> ExprChars] :
        src = HeaderSource \o e \o FooterSource

(***************************************************************************)
(* The front end as a state machine: the iterator of lex() is drained, one *)
(* call of Cursor::lex per step, and parse() runs on the tokens.           *)
(***************************************************************************)
InitLex ==
    /\ pc = "source"
    /\ \/ FreeSource(source, MaxSourceLen)
       \/ DisplayedSource(source)
       \/ NumberSource(source)
       \/ ProgramSource(source, MaxExprChars)
    /\ chars = <<>>
    /\ current = EOF
    /\ tokens = <<>>
    /\ pos = 0
    /\ program = None
    /\ result = None
    /\ ast = None
    /\ counter = 0
    /\ tac = None
    /\ sel = <<>>
    /\ asm = <<>>
    /\ offset = 0
    /\ machine = None
    /\ run = 1
    /\ code = <<>>
    /\ start = None

\* let mut chars = Cursor::new(source.chars())
CursorNewStep ==
    /\ pc = "source"
    /\ chars' = CursorNew(source).chars
    /\ current' = CursorNew(source).current
    /\ pc' = "lexing"
    /\ UNCHANGED <<tokens, pos, program, result, ast, counter, tac, sel, asm, offset,
                   machine, run, source, code, start>>

\* the cursor and the token list after one call of chars.lex() that returned r
LexReturn(r) ==
    /\ chars' = r.cursor.chars
    /\ current' = r.cursor.current
    /\ IF r.token = None
       THEN pc' = "tokens" /\ tokens' = tokens
       ELSE pc' = "lexing" /\ tokens' = Append(tokens, r.token[2])

\* one call of the closure of lex(): chars.lex()
LexStep ==
    /\ pc = "lexing"
    /\ LexReturn(CursorLex([chars |-> chars, current |-> current]))
    /\ UNCHANGED <<pos, program, result, ast, counter, tac, sel, asm, offset,
                   machine, run, source, code, start>>

NextLex ==
    \/ CursorNewStep
    \/ LexStep

SpecLex == InitLex /\ [][NextLex]_vars

(***************************************************************************)
(* The front end of run_compiler (main.rs): the iterator of lex() is       *)
(* either checked by all() (--lex) or handed to parse(), which pulls the   *)
(* tokens it asks for.                                                     *)
(***************************************************************************)
InitFront == InitLex

\* if args.lex { token_stream.all(..) }: exit(1) on an invalid token
LexAllStep ==
    /\ pc = "lexing"
    /\ \E a \in {LexAll(tokens, [chars |-> chars, current |-> current])} :
          /\ StreamReturn(a)
          /\ pc' = IF a.all THEN "lexed" ELSE "lex_error"
    /\ UNCHANGED <<pos, program, result, ast, counter, tac, sel, asm, offset,
                   machine, run, source, code, start>>

\* myc::parse(token_stream) on a stream that has yielded toks and whose
\* iterator stands at cursor: the Result, and the stream as parse() leaves it
ParseStream(toks, cursor) ==
    LET prog == ParseProgram(Stream(toks, cursor), 0)
        pulled == Pulled(toks, cursor, prog.pulled)
        r == ParseReturn(Stream(toks, cursor), prog.pos, prog.res)
        left == Pulled(pulled.tokens, pulled.cursor, r.pulled)
    IN  [result |-> r.res, tokens |-> left.tokens, chars |-> left.cursor.chars,
         current |-> left.cursor.current]

NextFront ==
    \/ CursorNewStep
    \/ LexAllStep
    \/ ParseProgramStep
    \/ ParseReturnStep

SpecFront == InitFront /\ [][NextFront]_vars

(***************************************************************************)
(* Properties of the back end, checked under SpecCompile.                  *)
(***************************************************************************)
\* the expression the compiled function returns
ReturnedExpression == ast.function_definition.body[2]

\* the TAC instruction list of the function
TacBody == tac.function.body

\* the operands of one assembly instruction in the order the passes visit them
OperandSeq(i) ==
    CASE i[1] = "Mov"    -> <<i[2], i[3]>>
      [] i[1] = "Unary"  -> <<i[3]>>
      [] i[1] = "Binary" -> <<i[3], i[4]>>
      [] i[1] = "Idiv"   -> <<i[2]>>
      [] OTHER           -> <<>>

RECURSIVE OperandScan(_)
\* the operands of an instruction list in scan order
OperandScan(is) ==
    IF is = <<>> THEN <<>> ELSE OperandSeq(Head(is)) \o OperandScan(Tail(is))

\* the pseudo names of an instruction list
PseudoNames(is) == {o[2] : o \in {x \in AllOperands(is) : x[1] = "Pseudo"}}

\* k such that `name` is the k-th distinct pseudo name of the scan `ops`
\* whose p-th operand is an occurrence of it
DistinctRank(ops, p) ==
    LET first == CHOOSE j \in 1 .. p :
                    /\ ops[j] = ops[p]
                    /\ \A h \in 1 .. (j - 1) : ops[h] # ops[p]
    IN  Cardinality({ops[j][2] : j \in {h \in 1 .. first : ops[h][1] = "Pseudo"}})

\* C1: for an expression whose evaluation divides neither by zero nor with
\* overflow, the instruction list of tacky followed by assembly, run on the
\* abstract machine, reaches Ret with AX equal to the value of the expression.
C1_CompiledValue ==
    (pc = "done" /\ Eval(ReturnedExpression)[1] = "ok")
        => /\ machine.status = "ret"
           /\ machine.reg["AX"] = Eval(ReturnedExpression)[2]

\* C4: pseudo replacement gives the k-th distinct pseudo name of the scan the
\* offset 4*k at every one of its occurrences, and two different names never
\* the same Stack offset.
C4_InjectiveSlots ==
    pc = "replaced" =>
        LET before == OperandScan(sel)
            after == OperandScan(asm)
            P == {p \in DOMAIN before : before[p][1] = "Pseudo"}
        IN  /\ \A p \in P : after[p] = <<"Stack", 4 * DistinctRank(before, p)>>
            /\ \A p, q \in P : before[p] # before[q] => after[p] # after[q]

\* C5: the program returned by assembly() starts with AllocateStack(n), holds
\* no other AllocateStack, and n is 4 times the number of distinct pseudo
\* names of the function.
C5_FrameSize ==
    pc = "assembled" =>
        /\ asm[1][1] = "AllocateStack"
        /\ \A k \in 2 .. Len(asm) : asm[k][1] # "AllocateStack"
        /\ asm[1][2] = 4 * Cardinality(PseudoNames(sel))

\* C6: in the program returned by assembly(), no Binary Mult instruction has
\* a Stack operand as its destination, whatever its source is.
C6_NoMultIntoStack ==
    pc = "assembled" =>
        \A k \in DOMAIN asm :
            ~(asm[k][1] = "Binary" /\ asm[k][2] = "Mult" /\ asm[k][4][1] = "Stack")

\* C7: in the program returned by assembly(), no Mov and no Binary Add or Sub
\* has two Stack operands, and no Idiv has an Imm operand.
C7_LegalOperands ==
    pc = "assembled" =>
        \A k \in DOMAIN asm :
            /\ ~(asm[k][1] = "Mov" /\ asm[k][2][1] = "Stack" /\ asm[k][3][1] = "Stack")
            /\ ~(asm[k][1] = "Binary" /\ asm[k][2] \in {"Add", "Sub"}
                   /\ asm[k][3][1] = "Stack" /\ asm[k][4][1] = "Stack")
            /\ ~(asm[k][1] = "Idiv" /\ asm[k][2][1] = "Imm")

\* a compilation whose pseudo replacement left a Mov between two stack slots
\* and an Idiv of an immediate, both rewritten by fixing up
C7_Witness ==
    /\ pc = "assembled"
    /\ LET r == ReplacePseudoRegisters(sel).instructions
       IN  /\ \E k \in DOMAIN r :
                r[k][1] = "Mov" /\ r[k][2][1] = "Stack" /\ r[k][3][1] = "Stack"
           /\ \E k \in DOMAIN r : r[k][1] = "Idiv" /\ r[k][2][1] = "Imm"
    /\ \E k \in DOMAIN asm : asm[k] = <<"Idiv", <<"Register", "R10">> >>

\* the destination of a TAC instruction (Return has none)
TacDst(i) ==
    CASE i[1] = "Unary"  -> i[4]
      [] i[1] = "Binary" -> i[5]

\* the values a TAC instruction reads
TacSources(i) ==
    CASE i[1] = "Return" -> {i[2]}
      [] i[1] = "Unary"  -> {i[3]}
      [] i[1] = "Binary" -> {i[3], i[4]}

\* the positions of the TAC list that hold an instruction with a dst
TacDefs == {k \in DOMAIN TacBody : TacBody[k][1] # "Return"}

\* C8: in the TAC list every dst is a Var, no two instructions have the same
\* dst name, and every Var that is read is the dst of a strictly earlier
\* instruction.
C8_SingleAssignment ==
    pc = "tacky" =>
        /\ \A k \in TacDefs : TacDst(TacBody[k])[1] = "Var"
        /\ \A k, h \in TacDefs : k # h => TacDst(TacBody[k]) # TacDst(TacBody[h])
        /\ \A k \in DOMAIN TacBody : \A v \in TacSources(TacBody[k]) :
                v[1] = "Var" => \E h \in TacDefs : h < k /\ TacDst(TacBody[h]) = v

\* a TAC list of three definitions whose last two read a temporary
C8_Witness ==
    /\ pc = "tacky"
    /\ Cardinality(TacDefs) = 3
    /\ \E k \in TacDefs : \E v \in TacSources(TacBody[k]) : v[1] = "Var"
    /\ TacBody[Len(TacBody)][2][1] = "Var"

\* the temporary names as the tests of tacky.rs spell them
TemporaryNames ==
    << "__tmp.0", "__tmp.1", "__tmp.2", "__tmp.3", "__tmp.4", "__tmp.5",
       "__tmp.6", "__tmp.7", "__tmp.8", "__tmp.9" >>

\* C9: for an AST with k operator nodes the i-th non-Return instruction
\* (i = 0..k-1) has dst __tmp.i, in every compilation of the process, so that
\* compiling the same AST again yields the same names.
C9_TemporaryNames ==
    pc = "tacky" =>
        LET k == OperatorNodes(ReturnedExpression)
        IN  /\ Len(TacBody) = k + 1
            /\ \A i \in 0 .. (k - 1) :
                  /\ TacBody[i + 1][1] # "Return"
                  /\ TacDst(TacBody[i + 1]) = <<"Var", TemporaryNames[i + 1]>>

\* the second compilation of an AST with three operator nodes
C9_Witness ==
    /\ pc = "tacky"
    /\ run = 2
    /\ OperatorNodes(ReturnedExpression) = 3
    /\ TacDst(TacBody[3]) = <<"Var", "__tmp.2">>

(***************************************************************************)
(* Properties of assembly selection and code generation, checked under     *)
(* SpecCompile.                                                            *)
(***************************************************************************)
\* the line the emitter is to write for an instruction: tab, mnemonic, tab,
\* operands
RenderedInstruction(i) ==
    CASE i[1] = "Mov" ->
            "\tmovl\t" \o DisplayOperand(i[2]) \o ", " \o DisplayOperand(i[3])
      [] i[1] = "Unary" ->
            "\t" \o (IF i[2] = "Neg" THEN "negl" ELSE "notl") \o "\t" \o DisplayOperand(i[3])
      [] i[1] = "Binary" ->
            "\t" \o (CASE i[2] = "Add" -> "addl" [] i[2] = "Sub" -> "subl"
                       [] i[2] = "Mult" -> "imull")
                 \o "\t" \o DisplayOperand(i[3]) \o ", " \o DisplayOperand(i[4])
      [] i[1] = "Idiv" -> "\tidivl\t" \o DisplayOperand(i[2])
      [] i[1] = "Cdq" -> "\tcdq"
      [] i[1] = "AllocateStack" -> "\tsubq\t$" \o ToString(i[2]) \o ", %rsp"
      [] i[1] = "Ret" -> "\tmovq\t%rbp, %rsp\n\tpopq\t%rbp\n\tret"

\* C17: codegen renders every instruction of the program assembly() returns,
\* in list order: movl, negl/notl, addl/subl/imull, idivl, cdq, subq and the
\* three lines of Ret; no instruction kind is left unrendered or fails.
C17_EmitterTotal ==
    pc = "emitted" =>
        /\ Len(code.instructions) = Len(asm)
        /\ \A k \in DOMAIN asm :
              code.instructions[k] = <<"Ok", RenderedInstruction(asm[k])>>
        /\ code.text[1] = "Ok"

\* C17 on the programs that hold no Binary, Idiv or Cdq instruction
C17_RenderedKinds ==
    (pc = "emitted" /\ \A k \in DOMAIN asm : asm[k][1] \notin {"Binary", "Idiv", "Cdq"})
        => C17_EmitterTotal

\* the instructions the selection table gives for one TAC instruction
TableRow(i) ==
    CASE i[1] = "Return" ->
            << <<"Mov", OperandFrom(i[2]), <<"Register", "AX">> >>, <<"Ret">> >>
      [] i[1] = "Unary" ->
            << <<"Mov", OperandFrom(i[3]), OperandFrom(i[4])>>,
               <<"Unary", IF i[2] = "Complement" THEN "Not" ELSE "Neg", OperandFrom(i[4])>> >>
      [] i[1] = "Binary" /\ i[2] \in {"Add", "Subtract", "Multiply"} ->
            << <<"Mov", OperandFrom(i[3]), OperandFrom(i[5])>>,
               <<"Binary", CASE i[2] = "Add" -> "Add" [] i[2] = "Subtract" -> "Sub"
                             [] i[2] = "Multiply" -> "Mult",
                 OperandFrom(i[4]), OperandFrom(i[5])>> >>
      [] i[1] = "Binary" /\ i[2] \in {"Divide", "Remainder"} ->
            << <<"Mov", OperandFrom(i[3]), <<"Register", "AX">> >>,
               <<"Cdq">>,
               <<"Idiv", OperandFrom(i[4])>>,
               <<"Mov", <<"Register", IF i[2] = "Divide" THEN "AX" ELSE "DX">>,
                 OperandFrom(i[5])>> >>

RECURSIVE TableRows(_)
\* the rows of the table for a TAC list, one after the other
TableRows(is) == IF is = <<>> THEN <<>> ELSE TableRow(Head(is)) \o TableRows(Tail(is))

\* C18: assembly selection maps each TAC instruction, in order, to exactly
\* the sequence of the selection table, and the conversion of a Divide or
\* Remainder operator to an assembly binary operator, which fails, is never
\* reached.
C18_SelectionTable ==
    pc = "selected" =>
        /\ sel = TableRows(TacBody)
        /\ \A k \in DOMAIN sel : sel[k] # <<"panic">>

\* a TAC list with a Divide, a Remainder and a Unary instruction has been
\* selected
C18_Witness ==
    /\ pc = "selected"
    /\ \E k \in DOMAIN TacBody : TacBody[k][1] = "Binary" /\ TacBody[k][2] = "Divide"
    /\ \E k \in DOMAIN TacBody : TacBody[k][1] = "Binary" /\ TacBody[k][2] = "Remainder"
    /\ \E k \in DOMAIN TacBody : TacBody[k][1] = "Unary"
    /\ Len(sel) = 4 + 4 + 2 + 2
    /\ \E k \in DOMAIN sel : sel[k] = <<"Mov", <<"Register", "DX">>, <<"Pseudo", "__tmp.1">> >>

\* C21: in the instruction list of assembly selection every operand is Imm,
\* Register or Pseudo, no instruction is AllocateStack, and the only
\* registers are AX and DX: R10 and R11 hold no program temporary.
C21_SelectedOperands ==
    pc = "selected" =>
        \A k \in DOMAIN sel :
            /\ sel[k][1] # "AllocateStack"
            /\ \A op \in Operands(sel[k]) :
                  /\ op[1] \in {"Imm", "Register", "Pseudo"}
                  /\ op[1] = "Register" => op[2] \in {"AX", "DX"}

\* a selected list that mentions AX, DX, an immediate and a pseudo register
C21_Witness ==
    /\ pc = "selected"
    /\ <<"Register", "AX">> \in AllOperands(sel)
    /\ <<"Register", "DX">> \in AllOperands(sel)
    /\ \E op \in AllOperands(sel) : op[1] = "Imm"
    /\ \E op \in AllOperands(sel) : op[1] = "Pseudo"

\* C22: pseudo replacement changes only Pseudo operands: the output has as
\* many instructions as the input, of the same kinds and operators in the
\* same order, every Imm and Register operand is unchanged, and no Pseudo
\* operand remains.
C22_OnlyPseudosReplaced ==
    pc = "replaced" =>
        /\ Len(asm) = Len(sel)
        /\ \A k \in DOMAIN sel :
              /\ asm[k][1] = sel[k][1]
              /\ sel[k][1] \in {"Unary", "Binary"} => asm[k][2] = sel[k][2]
              /\ sel[k][1] \in {"AllocateStack", "Ret", "Cdq"} => asm[k] = sel[k]
              /\ Len(OperandSeq(asm[k])) = Len(OperandSeq(sel[k]))
              /\ \A j \in DOMAIN OperandSeq(sel[k]) :
                    /\ OperandSeq(sel[k])[j][1] # "Pseudo"
                          => OperandSeq(asm[k])[j] = OperandSeq(sel[k])[j]
                    /\ OperandSeq(sel[k])[j][1] = "Pseudo"
                          => OperandSeq(asm[k])[j][1] = "Stack"
        /\ \A op \in AllOperands(asm) : op[1] # "Pseudo"

\* a list with a pseudo register used several times, an immediate and both
\* AX and DX has been rewritten
C22_Witness ==
    /\ pc = "replaced"
    /\ Cardinality(PseudoNames(sel)) >= 2
    /\ <<"Register", "DX">> \in AllOperands(asm)
    /\ <<"Register", "AX">> \in AllOperands(asm)
    /\ \E op \in AllOperands(asm) : op[1] = "Imm"
    /\ \E k \in DOMAIN asm : asm[k][1] = "Idiv" /\ asm[k][2][1] = "Stack"

RECURSIVE PostOrder(_)
\* the operator nodes of an expression, children before their parent and the
\* left child before the right one
PostOrder(e) ==
    CASE e[1] = "Constant" -> <<>>
      [] e[1] = "Unary"    -> Append(PostOrder(e[3]), e)
      [] e[1] = "Binary"   -> Append(PostOrder(e[3]) \o PostOrder(e[4]), e)

\* the TAC value of the expression e whose last instruction, if it has one,
\* is the i-th of the list
ValueAt(e, i) ==
    IF e[1] = "Constant" THEN <<"Constant", e[2]>> ELSE TacDst(TacBody[i])

\* C23: the TAC list holds the instructions of the operator nodes in
\* left-to-right post-order (for a Binary all of the left operand, then all
\* of the right one, then the Binary itself), none for a Constant, so one per
\* operator node plus the Return, which is last, occurs once and returns the
\* value of the root expression.
C23_PostOrder ==
    pc = "tacky" =>
        LET nodes == PostOrder(ReturnedExpression)
            k == Len(nodes)
        IN  /\ k = OperatorNodes(ReturnedExpression)
            /\ Len(TacBody) = k + 1
            /\ \A i \in 1 .. k :
                  /\ nodes[i][1] = "Unary" =>
                        /\ TacBody[i][1] = "Unary"
                        /\ TacBody[i][2] = nodes[i][2]
                        /\ TacBody[i][3] = ValueAt(nodes[i][3], i - 1)
                  /\ nodes[i][1] = "Binary" =>
                        /\ TacBody[i][1] = "Binary"
                        /\ TacBody[i][2] = nodes[i][2]
                        /\ TacBody[i][3] =
                              ValueAt(nodes[i][3], i - 1 - OperatorNodes(nodes[i][4]))
                        /\ TacBody[i][4] = ValueAt(nodes[i][4], i - 1)
            /\ TacBody[k + 1] = <<"Return", ValueAt(ReturnedExpression, k)>>
            /\ \A i \in 1 .. k : TacBody[i][1] # "Return"

\* (1+2)*((3+4)*(5+6)) has been lowered: five instructions and the Return
C23_Witness ==
    /\ pc = "tacky"
    /\ OperatorNodes(ReturnedExpression) = 5
    /\ ReturnedExpression[3][1] = "Binary"
    /\ ReturnedExpression[4][1] = "Binary"
    /\ TacBody[5] = <<"Binary", "Multiply", <<"Var", "__tmp.0">>, <<"Var", "__tmp.3">>,
                      <<"Var", "__tmp.4">> >>
    /\ TacBody[6] = <<"Return", <<"Var", "__tmp.4">> >>

\* C24: every Stack(off) operand of the program assembly() returns lies in
\* the allocated frame: off is a multiple of 4 with 4 <= off <= n, where
\* AllocateStack(n) is the first instruction.
C24_SlotsInFrame ==
    pc = "assembled" =>
        /\ asm[1][1] = "AllocateStack"
        /\ \A off \in StackSlots(asm) :
              /\ off % 4 = 0
              /\ 4 <= off
              /\ off <= asm[1][2]

(***************************************************************************)
(* Properties of single legalization rewrites, checked under SpecFix.      *)
(***************************************************************************)
ScratchRegisters == {"R10", "R11"}

\* the instruction reads register r
ReadsRegister(i, r) ==
    CASE i[1] = "Mov"    -> i[2] = <<"Register", r>>
      [] i[1] = "Unary"  -> i[3] = <<"Register", r>>
      [] i[1] = "Binary" -> <<"Register", r>> \in {i[3], i[4]}
      [] i[1] = "Idiv"   -> i[2] = <<"Register", r>> \/ r \in {"AX", "DX"}
      [] i[1] = "Cdq"    -> r = "AX"
      [] OTHER           -> FALSE

\* the instruction overwrites register r without reading it
SetsRegister(i, r) == i[1] = "Mov" /\ i[3] = <<"Register", r>>

\* the replacement has stopped: it ran to its end or it faulted
Stopped == pc = "execute" /\ (asm = <<>> \/ machine.status # "running")

\* C25: executing the sequence a legalization rewrite puts in the place of an
\* instruction leaves AX, DX and every stack slot as executing the instruction
\* itself from the same machine state does (a fault included); only R10 and
\* R11 may differ, and the sequence writes each of them before it reads it.
C25_RewritePreservesEffect ==
    pc = "execute" =>
        LET original == ExecInstruction(sel[1], start)
            replacement == FixInstruction(sel[1])
        IN  /\ Stopped =>
                  /\ machine.reg["AX"] = original.reg["AX"]
                  /\ machine.reg["DX"] = original.reg["DX"]
                  /\ machine.stack = original.stack
                  /\ machine.status = original.status
            /\ \A k \in DOMAIN replacement : \A r \in ScratchRegisters :
                  ReadsRegister(replacement[k], r)
                      => \E j \in 1 .. k - 1 : SetsRegister(replacement[j], r)

\* a Mult of two different slots has been replaced and run: the product is in
\* the destination slot and R11 has changed
C25_Witness ==
    /\ Stopped
    /\ sel[1][1] = "Binary"
    /\ sel[1][2] = "Mult"
    /\ sel[1][3] # sel[1][4]
    /\ machine.status = "running"
    /\ machine.stack[sel[1][4][2]] # start.stack[sel[1][4][2]]
    /\ machine.reg["R11"] # start.reg["R11"]

\* an Idiv of an immediate has been replaced and run without a fault
C25_IdivWitness ==
    /\ Stopped
    /\ sel[1][1] = "Idiv"
    /\ machine.status = "running"
    /\ machine.reg["AX"] # start.reg["AX"]
    /\ machine.reg["R10"] # start.reg["R10"]

(***************************************************************************)
(* Properties of the parser, checked under SpecParse.                      *)
(***************************************************************************)
\* the tokens between `return` and the end of a stream that starts with Header
ExpressionTokens == SubSeq(tokens, Len(Header) + 1, Len(tokens))

\* the expression of the program parse() returned
ParsedExpression == result[2].function_definition.body[2]

RECURSIVE HasUnaryOfBinary(_)
\* some Unary node of the expression has a Binary node as its operand
HasUnaryOfBinary(e) ==
    CASE e[1] = "Constant" -> FALSE
      [] e[1] = "Unary"    -> e[3][1] = "Binary" \/ HasUnaryOfBinary(e[3])
      [] e[1] = "Binary"   -> HasUnaryOfBinary(e[3]) \/ HasUnaryOfBinary(e[4])

\* C2: a unary prefix operator binds tighter than any binary operator: the
\* operand of a Unary node is the next factor, so without parentheses it is
\* never a binary expression, and `op c binop c` parses to
\* Binary(binop, Unary(op, c), c).
C2_UnaryBindsTighter ==
    (pc = "parsed" /\ result[1] = "Ok")
        => /\ (\A k \in DOMAIN ExpressionTokens :
                    ExpressionTokens[k] # <<"OpenParenthesis">>)
                => ~HasUnaryOfBinary(ParsedExpression)
           /\ tokens = Header \o << <<"Minus">>, <<"Constant", 1>>, <<"Plus">>,
                                    <<"Constant", 2>> >> \o Footer
                => ParsedExpression =
                     <<"Binary", "Add", <<"Unary", "Negate", <<"Constant", 1>> >>,
                       <<"Constant", 2>> >>

\* the token stream is a program returning a chain  c op c op ... c
IsInfixProgram ==
    /\ Len(tokens) >= Len(Header) + 3 + Len(Footer)
    /\ SubSeq(tokens, 1, Len(Header)) = Header
    /\ SubSeq(tokens, Len(tokens) - Len(Footer) + 1, Len(tokens)) = Footer
    /\ LET e == SubSeq(tokens, Len(Header) + 1, Len(tokens) - Len(Footer))
       IN  /\ Len(e) % 2 = 1
           /\ \A i \in DOMAIN e :
                 IF i % 2 = 1 THEN e[i][1] = "Constant" ELSE e[i] \in BinaryOperatorTokens

\* the precedence table of the grammar, on AST operators
TablePrecedence(op) == IF op \in {"Multiply", "Divide", "Remainder"} THEN 50 ELSE 45

\* the token a binary AST operator is written with
OperatorToken(op) ==
    CASE op = "Add"       -> <<"Plus">>
      [] op = "Subtract"  -> <<"Minus">>
      [] op = "Multiply"  -> <<"Star">>
      [] op = "Divide"    -> <<"Slash">>
      [] op = "Remainder" -> <<"Percent">>

RECURSIVE InOrder(_)
\* the tokens of a tree of constants and binary operators, left to right
InOrder(e) ==
    CASE e[1] = "Constant" -> << <<"Constant", e[2]>> >>
      [] e[1] = "Binary"   -> InOrder(e[3]) \o <<OperatorToken(e[2])>> \o InOrder(e[4])
      [] OTHER             -> << <<"Invalid">> >>

RECURSIVE ClimbShaped(_)
\* the shape the table and left associativity fix: a right operand binds
\* strictly tighter than its parent, a left operand at least as tight
ClimbShaped(e) ==
    IF e[1] # "Binary" THEN TRUE
    ELSE /\ e[4][1] = "Binary" => TablePrecedence(e[4][2]) > TablePrecedence(e[2])
         /\ e[3][1] = "Binary" => TablePrecedence(e[3][2]) >= TablePrecedence(e[2])
         /\ ClimbShaped(e[3])
         /\ ClimbShaped(e[4])

\* return 1 - 2 - 3 ;   and   return 1 - 2 * 3 ;
LeftAssocExample ==
    Header \o << <<"Constant", 1>>, <<"Minus">>, <<"Constant", 2>>, <<"Minus">>,
                 <<"Constant", 3>> >> \o Footer
PrecedenceExample ==
    Header \o << <<"Constant", 1>>, <<"Minus">>, <<"Constant", 2>>, <<"Star">>,
                 <<"Constant", 3>> >> \o Footer

\* C3: an expression of integer literals and + - * / % parses to the one tree
\* with the literals and operators in source order in which * / % bind
\* tighter than + - and equal precedence associates to the left.
C3_PrecedenceClimbing ==
    (pc = "parsed" /\ IsInfixProgram)
        => /\ result[1] = "Ok"
           /\ InOrder(ParsedExpression)
                = SubSeq(tokens, Len(Header) + 1, Len(tokens) - Len(Footer))
           /\ ClimbShaped(ParsedExpression)
           /\ tokens = LeftAssocExample
                => ParsedExpression =
                     <<"Binary", "Subtract",
                       <<"Binary", "Subtract", <<"Constant", 1>>, <<"Constant", 2>> >>,
                       <<"Constant", 3>> >>
           /\ tokens = PrecedenceExample
                => ParsedExpression =
                     <<"Binary", "Subtract", <<"Constant", 1>>,
                       <<"Binary", "Multiply", <<"Constant", 2>>, <<"Constant", 3>> >> >>

\* 1 - 2 * 3 - 4 has been parsed: both rules decide its tree
C3_Witness ==
    /\ pc = "parsed"
    /\ IsInfixProgram
    /\ ExpressionTokens =
         << <<"Constant", 1>>, <<"Minus">>, <<"Constant", 2>>, <<"Star">>,
            <<"Constant", 3>>, <<"Minus">>, <<"Constant", 4>> >> \o Footer
    /\ result[1] = "Ok"
    /\ ParsedExpression =
         <<"Binary", "Subtract",
           <<"Binary", "Subtract", <<"Constant", 1>>,
             <<"Binary", "Multiply", <<"Constant", 2>>, <<"Constant", 3>> >> >>,
           <<"Constant", 4>> >>

\* C10: when parsing fails, parse() returns the first error raised, unchanged:
\* the error of parse_program, whatever tokens follow the offending one.
C10_FirstErrorReturned ==
    (pc = "parsed" /\ program[1] = "Err") => result = program

RECURSIVE IsFactor(_)
RECURSIVE IsExpression(_)
\* the grammar:  factor := Constant | ("-" | "~") factor | "(" expression ")"
IsFactor(s) ==
    /\ Len(s) >= 1
    /\ \/ Len(s) = 1 /\ s[1][1] = "Constant"
       \/ s[1] \in {<<"Minus">>, <<"Tilde">>} /\ IsFactor(Tail(s))
       \/ /\ Len(s) >= 3
          /\ s[1] = <<"OpenParenthesis">>
          /\ s[Len(s)] = <<"CloseParenthesis">>
          /\ IsExpression(SubSeq(s, 2, Len(s) - 1))

\* the grammar:  expression := factor (binop expression)*
IsExpression(s) ==
    \/ IsFactor(s)
    \/ \E k \in 2 .. (Len(s) - 1) :
          /\ s[k] \in BinaryOperatorTokens
          /\ IsFactor(SubSeq(s, 1, k - 1))
          /\ IsExpression(SubSeq(s, k + 1, Len(s)))

\* the grammar:  "int" Ident "(" "void" ")" "{" "return" expression ";" "}"
IsValidProgram(s) ==
    /\ Len(s) >= Len(Header) + 1 + Len(Footer)
    /\ s[1] = <<"Int">>
    /\ s[2][1] = "Identifier"
    /\ SubSeq(s, 3, Len(Header)) = SubSeq(Header, 3, Len(Header))
    /\ SubSeq(s, Len(s) - Len(Footer) + 1, Len(s)) = Footer
    /\ IsExpression(SubSeq(s, Len(Header) + 1, Len(s) - Len(Footer)))

\* C11: when the token sequence is a complete valid program followed by at
\* least one more token, parse() returns Err(UnexpectedToken(t)) for the first
\* token t after the closing brace, and so never Ok.
C11_TrailingTokens ==
    pc = "parsed" =>
        \A n \in 1 .. (Len(tokens) - 1) :
            IsValidProgram(SubSeq(tokens, 1, n))
                => result = <<"Err", UnexpectedToken(tokens[n + 1])>>

\* a valid program followed by two tokens has been rejected with the first
C11_Witness ==
    /\ pc = "parsed"
    /\ Len(tokens) >= 2
    /\ IsValidProgram(SubSeq(tokens, 1, Len(tokens) - 2))
    /\ program[1] = "Ok"
    /\ result = <<"Err", UnexpectedToken(tokens[Len(tokens) - 1])>>

\* d closing parentheses
CloseParentheses(d) == [i \in 1 .. d |-> <<"CloseParenthesis">>]

\* the shortest ways a prefix of a valid program can be completed: the rest
\* of  int main ( void ) { return 2 ; }  or, inside the expression, a constant
\* where a factor is due, the parentheses still open, and  ; }
Completions(toks) ==
    {SubSeq(ValidProgram, k, Len(ValidProgram)) : k \in 1 .. Len(ValidProgram)}
    \cup {c \o CloseParentheses(d) \o Footer :
             c \in {<<>>, << <<"Constant", 1>> >>}, d \in 0 .. Len(toks)}

\* toks is a proper prefix of the token sequence of a valid program
IsProperPrefix(toks) == \E c \in Completions(toks) : IsValidProgram(toks \o c)

\* C12: for every proper prefix, the empty one included, of the token
\* sequence of a valid program parse() returns Err(UnexpectedEOF).
C12_PrefixEOF ==
    (pc = "parsed" /\ IsProperPrefix(tokens)) => result = <<"Err", UnexpectedEOF>>

\* a program cut off inside a parenthesised expression, after an operator
C12_Witness ==
    /\ pc = "parsed"
    /\ IsProperPrefix(tokens)
    /\ Len(tokens) = Len(Header) + 3
    /\ tokens[Len(Header) + 1] = <<"OpenParenthesis">>
    /\ tokens[Len(tokens)] \in BinaryOperatorTokens
    /\ result = <<"Err", UnexpectedEOF>>

\* the tokens every program has, whatever its expression
FixedTokens == {Header[k] : k \in DOMAIN Header} \cup {Footer[k] : k \in DOMAIN Footer}

\* s with the token t put in as its k-th element
WithToken(s, k, t) == SubSeq(s, 1, k - 1) \o <<t>> \o SubSeq(s, k, Len(s))

\* toks is a valid program with one of its fixed tokens left out
MissingFixedToken(toks) ==
    \E k \in 1 .. (Len(toks) + 1) : \E t \in FixedTokens :
        /\ k <= Len(Header) \/ k >= Len(toks) + 1 - Len(Footer) + 1
        /\ IsValidProgram(WithToken(toks, k, t))

\* C13: parse() returns Ok exactly for the token sequences
\* Int Identifier ( Void ) { Return <expression> ; }  whose expression the
\* grammar derives, and a sequence missing one of the fixed tokens is rejected.
C13_AcceptedLanguage ==
    pc = "parsed" =>
        /\ result[1] = "Ok" <=> IsValidProgram(tokens)
        /\ MissingFixedToken(tokens) => result[1] = "Err"

\* a program whose expression uses a unary operator, parentheses and a binary
\* operator has been accepted
C13_Witness ==
    /\ pc = "parsed"
    /\ result[1] = "Ok"
    /\ IsValidProgram(tokens)
    /\ Len(ExpressionTokens) = 4 + Len(Footer)
    /\ \E k \in DOMAIN ExpressionTokens : ExpressionTokens[k] = <<"OpenParenthesis">>
    /\ \E k \in DOMAIN ExpressionTokens : ExpressionTokens[k] \in BinaryOperatorTokens

\* a program that lacks one of its fixed tokens has been rejected
C13_MissingWitness ==
    /\ pc = "parsed"
    /\ MissingFixedToken(tokens)
    /\ result[1] = "Err"

(***************************************************************************)
(* Properties of the lexer, checked under SpecLex, and of the front end,   *)
(* checked under SpecFront.                                                *)
(***************************************************************************)
\* the chars the lexer has a token for: ( ) { } ; ~ - + * / %
PunctuationChars == {40, 41, 123, 125, 59, 126, 45, 43, 42, 47, 37}

\* a char other than whitespace, an ASCII letter, a digit and the
\* punctuation chars
OtherChar(c) ==
    /\ ~IsWhitespace(c)
    /\ c \notin (65 .. 90) \cup (97 .. 122)
    /\ ~IsDigit(c)
    /\ c \notin PunctuationChars

RECURSIVE Continues(_, _)
\* the k-th char of src continues an identifier or a number: it is
\* alphanumeric and the char before it starts or continues one
Continues(src, k) ==
    /\ k > 1
    /\ IsAlphanumeric(src[k])
    /\ \/ Continues(src, k - 1)
       \/ src[k - 1] \in (48 .. 57) \cup (65 .. 90) \cup (97 .. 122)

RECURSIVE OtherStartsFrom(_, _)
\* the chars of src from the k-th on that are OtherChar and stand where a
\* token starts, in order
OtherStartsFrom(src, k) ==
    IF k > Len(src) THEN <<>>
    ELSE (IF OtherChar(src[k]) /\ ~Continues(src, k) THEN <<src[k]>> ELSE <<>>)
            \o OtherStartsFrom(src, k + 1)

RECURSIVE InvalidChars(_)
\* the chars the invalid-character tokens of a token list carry, in order
InvalidChars(toks) ==
    IF toks = <<>> THEN <<>>
    ELSE (IF Head(toks)[1] = "Invalid" /\ Len(Head(toks)[2]) = 1
               /\ OtherChar(Head(toks)[2][1])
          THEN Head(toks)[2] ELSE <<>>)
            \o InvalidChars(Tail(toks))

\* C14: every char at a token start that is not whitespace, an ASCII letter,
\* a digit or one of ( ) { } ; ~ - + * / %, control chars such as NUL
\* included, is reported as Token::Invalid carrying exactly that char: the
\* lexer neither skips it nor ends the token sequence at it.
C14_InvalidCharacters ==
    pc = "tokens" => InvalidChars(tokens) = OtherStartsFrom(source, 1)

\* the chars the cursor still holds: current and the rest of the iterator
Pending == <<current>> \o chars

RECURSIVE AfterWhitespace(_)
\* s without its leading whitespace
AfterWhitespace(s) ==
    IF s # <<>> /\ IsWhitespace(Head(s)) THEN AfterWhitespace(Tail(s)) ELSE s

\* the length of the maximal alphanumeric run s starts with
RunLength(s) ==
    CHOOSE k \in 0 .. Len(s) :
        /\ \A i \in 1 .. k : IsAlphanumeric(s[i])
        /\ k = Len(s) \/ ~IsAlphanumeric(s[k + 1])

\* the number of zeros d starts with
LeadingZeros(d) ==
    CHOOSE k \in 0 .. Len(d) :
        /\ \A i \in 1 .. k : d[i] = 48
        /\ k = Len(d) \/ d[k + 1] # 48

\* 2147483647
MaxI32Digits == <<50, 49, 52, 55, 52, 56, 51, 54, 52, 55>>

\* the digit strings a and b of the same length denote numbers a <= b
DigitsLeq(a, b) ==
    \/ a = b
    \/ \E k \in DOMAIN a : a[k] < b[k] /\ \A j \in 1 .. (k - 1) : a[j] = b[j]

\* the run is a decimal integer between 0 and i32::MAX
IsI32Literal(r) ==
    /\ \A i \in DOMAIN r : IsDigit(r[i])
    /\ LET d == SubSeq(r, LeadingZeros(r) + 1, Len(r))
       IN  Len(d) < 10 \/ (Len(d) = 10 /\ DigitsLeq(d, MaxI32Digits))

RECURSIVE DecimalValue(_)
\* the number a digit string denotes
DecimalValue(d) ==
    IF d = <<>> THEN 0
    ELSE 10 * DecimalValue(SubSeq(d, 1, Len(d) - 1)) + (d[Len(d)] - 48)

\* the token a run that starts with a digit is to lex to
NumberToken(r) ==
    IF IsI32Literal(r) THEN <<"Constant", DecimalValue(r)>> ELSE <<"Invalid", r>>

\* C15: a maximal run that starts with a digit and goes on with letters or
\* digits lexes to Constant(n) iff the whole run is a decimal integer n with
\* 0 <= n <= 2147483647, and otherwise to the invalid token carrying the
\* whole run; either way the run is consumed as one token.
C15_NumberRuns ==
    [][(pc = "lexing" /\ AfterWhitespace(Pending) # <<>>
          /\ IsDigit(Head(AfterWhitespace(Pending))))
        => LET s == AfterWhitespace(Pending)
               n == RunLength(s)
           IN  /\ tokens' = Append(tokens, NumberToken(SubSeq(s, 1, n)))
               /\ current' = IF n < Len(s) THEN s[n + 1] ELSE EOF
               /\ chars' = SubSeq(s, n + 2, Len(s))]_vars

\* " 2147483648;" has been lexed to the invalid token of the whole run and
\* the semicolon
C15_Witness ==
    /\ pc = "tokens"
    /\ source = <<32, 50, 49, 52, 55, 52, 56, 51, 54, 52, 56, 59>>
    /\ tokens = << <<"Invalid", <<50, 49, 52, 55, 52, 56, 51, 54, 52, 56>> >>,
                   <<"Semicolon">> >>

\* "2147483647+1" has been lexed to Constant(i32::MAX), Plus, Constant(1)
C15_MaxWitness ==
    /\ pc = "tokens"
    /\ source = MaxI32Digits \o <<43, 49>>
    /\ tokens = << <<"Constant", MaxI32>>, <<"Plus">>, <<"Constant", 1>> >>

\* C16: for every token t of the fixed alphabet, lexing the text Display
\* renders for t yields exactly the one-element sequence [t].
C16_DisplayRoundTrip ==
    pc = "tokens" => \A t \in FixedAlphabet : source = Display(t) => tokens = <<t>>

\* "--" and "return" have been lexed back to DoubleMinus and Return
C16_Witness ==
    /\ pc = "tokens"
    /\ \/ source = Display(<<"DoubleMinus">>) /\ tokens = << <<"DoubleMinus">> >>
       \/ source = Display(<<"Return">>) /\ tokens = << <<"Return">> >>

RECURSIVE MinusTokens(_)
\* the tokens of a text of minus signs and spaces: a minus sign right before
\* another one makes one DoubleMinus with it
MinusTokens(src) ==
    IF src = <<>> THEN <<>>
    ELSE IF Head(src) = 32 THEN MinusTokens(Tail(src))
    ELSE IF Len(src) >= 2 /\ src[2] = 45
         THEN << <<"DoubleMinus">> >> \o MinusTokens(Tail(Tail(src)))
         ELSE << <<"Minus">> >> \o MinusTokens(Tail(src))

\* return 1--2;  and  return --2;
DoubleMinusOperatorSource == HeaderSource \o <<49, 45, 45, 50>> \o FooterSource
DoubleMinusFactorSource == HeaderSource \o <<45, 45, 50>> \o FooterSource

\* the token list holds a DoubleMinus
HoldsDoubleMinus(toks) == \E k \in DOMAIN toks : toks[k] = <<"DoubleMinus">>

\* C19: a minus sign immediately followed by another lexes with it to one
\* DoubleMinus (--- is DoubleMinus, Minus; - - is Minus, Minus), and parse()
\* returns an error for every token sequence that holds a DoubleMinus,
\* whether the parser has pulled that token from the lexer or not.
C19_DoubleMinus ==
    /\ (pc = "lexed" /\ \A k \in DOMAIN source : source[k] \in {45, 32})
          => tokens = MinusTokens(source)
    /\ (pc = "lexed" /\ source = <<45, 45, 45>>)
          => tokens = << <<"DoubleMinus">>, <<"Minus">> >>
    /\ (pc = "lexed" /\ source = <<45, 32, 45>>)
          => tokens = << <<"Minus">>, <<"Minus">> >>
    /\ (pc = "parsed" /\ HoldsDoubleMinus(Lex(source))) => result[1] = "Err"
    /\ (pc = "parsed" /\ source \in {DoubleMinusOperatorSource, DoubleMinusFactorSource})
          => /\ \E k \in DOMAIN tokens : tokens[k] = <<"DoubleMinus">>
             /\ result[1] = "Err"

\* return 1--2;  has been lexed with a DoubleMinus after the constant and
\* rejected by the parser
C19_Witness ==
    /\ pc = "parsed"
    /\ source = DoubleMinusOperatorSource
    /\ tokens[Len(Header) + 2] = <<"DoubleMinus">>
    /\ result[1] = "Err"

\* C20: once the lexer has reported an invalid character or an invalid
\* number it produces no further token: an invalid token is the last token
\* of the sequence.
C20_LexErrorFatal ==
    \A k \in DOMAIN tokens : tokens[k][1] = "Invalid" => k = Len(tokens)

====
